---- MODULE Spec2Model ----
(***************************************************************************)
(* Key selection and rate-enforcement engine of the MailTester key         *)
(* manager (MongoDB variant of keyManager.js), its two cron sweeps, the    *)
(* key registry and the token service, as a state machine.  Every await    *)
(* on the key collection is a step of its own, so that concurrent callers  *)
(* and replicas interleave exactly at the store round-trips.               *)
(***************************************************************************)
EXTENDS Integers, Sequences, FiniteSets, TLC

(* ------------------------------------------------------------------ *)
(* Program constants                                                   *)
(* ------------------------------------------------------------------ *)
WINDOW_MS == 30000
DAY_MS == 86400000
maxAttempts == 3
RetryDelayMs == 20
DEFAULT_BACKOFF_MS == 1000
DEFAULT_MAX_WAIT_MS == 0
DEFAULT_CONCURRENCY == 5
DEFAULT_PRO_INTERVAL_MS == 860
DEFAULT_ULTIMATE_INTERVAL_MS == 170

(* ------------------------------------------------------------------ *)
(* Bounds of the model                                                 *)
(* ------------------------------------------------------------------ *)
MaxTicks == 2
MaxReserves == 2
MaxAdmin == 1
InitNow == 86390000
MaxJobs == 2

Ids == {"k1", "k2"}
Procs == {"r1", "r2"}
PlanInputs == {"pro", "ultimate"}

VARIABLES store, now, ticks, rs, calls, ws, dsw, reg, sync, admin, issued,
          env, wq, http, redis, watcher

vars == <<store, now, ticks, rs, calls, ws, dsw, reg, sync, admin, issued,
          env, wq, http, redis, watcher>>

(* ------------------------------------------------------------------ *)
(* Plan policy                                                         *)
(* ------------------------------------------------------------------ *)
\* String.prototype.toLowerCase on the plan strings the model uses
ToLower(s) ==
  CASE s = "PRO" -> "pro"
    [] s = "Pro" -> "pro"
    [] s = "ULTIMATE" -> "ultimate"
    [] s = "Free" -> "free"
    [] OTHER -> s

\* a || b on strings
Or(a, b) == IF a = "" THEN b ELSE a

\* defaultPlan = String(process.env.MAILTESTER_DEFAULT_PLAN || 'ultimate').toLowerCase()
defaultPlanOf(raw) == ToLower(Or(raw, "ultimate"))

\* normalizePlan of initializeKeysFromEnv and of the watcher
normalizePlan(plan) == IF ToLower(Or(plan, "")) = "pro" THEN "pro" ELSE "ultimate"

getRateLimits(plan) ==
  IF ToLower(plan) = "pro"
  THEN [rateLimit30s |-> 35, dailyLimit |-> 100000,
        avgRequestIntervalMs |-> (30 * 1000) \div 35]
  ELSE [rateLimit30s |-> 170, dailyLimit |-> 500000,
        avgRequestIntervalMs |-> (30 * 1000) \div 170]

(* ------------------------------------------------------------------ *)
(* The key collection: an array of documents in insertion order        *)
(* ------------------------------------------------------------------ *)
\* docs.find(...) over the matching positions: the first one, 0 when none
FirstIdx(matching) ==
  IF matching = {} THEN 0
  ELSE CHOOSE i \in matching : \A j \in matching : i <= j

\* position of the first document matching { subscriptionId: id }
IdxOf(st, id) == FirstIdx({i \in 1..Len(st) : st[i].subscriptionId = id})

\* $set: the named fields are overwritten, the others kept (every field the
\* modelled writes set is a field of the registered document)
applySet(doc, fields) ==
  [k \in DOMAIN doc |-> IF k \in DOMAIN fields THEN fields[k] ELSE doc[k]]

\* an updateOne that inserts a document when none matches
updateOneUpsert(st, id, fields) ==
  LET i == IdxOf(st, id)
  IN IF i = 0 THEN Append(st, [subscriptionId |-> id] @@ fields)
     ELSE [st EXCEPT ![i] = applySet(st[i], fields)]

\* collection.updateOne({ subscriptionId: id }, { $set: fields }): first match only
updateOne(st, id, fields) ==
  LET i == IdxOf(st, id)
  IN IF i = 0 THEN st ELSE [st EXCEPT ![i] = applySet(st[i], fields)]

\* collection.deleteOne({ subscriptionId: id }): removes the first match only
deleteOne(st, id) ==
  LET i == IdxOf(st, id)
  IN IF i = 0 THEN st
     ELSE [j \in 1..(Len(st) - 1) |-> IF j < i THEN st[j] ELSE st[j + 1]]

HasId(st, id) == IdxOf(st, id) # 0

\* an insertOne on a collection without an index
insertOneNoIndex(st, doc) == Append(st, doc)

\* collection.insertOne(doc) under the unique index on subscriptionId: a
\* duplicate key is rejected and the collection is left as it was
insertOne(st, doc) ==
  IF HasId(st, doc.subscriptionId) THEN st ELSE Append(st, doc)

\* the first stored document of id (callers check HasId first)
DocOf(st, id) == st[IdxOf(st, id)]

\* getAllKeysStatus: docs.map(({ _id, token, lastRefresh, ...rest }) => rest)
getAllKeysStatus(st) ==
  [i \in 1..Len(st) |->
     [k \in DOMAIN st[i] \ {"_id", "token", "lastRefresh"} |-> st[i][k]]]

\* a limits listing that adds the interval to lastUsed of every key
getKeyLimitsAlways(st) ==
  LET status == getAllKeysStatus(st)
  IN [i \in 1..Len(status) |->
        [subscriptionId |-> status[i].subscriptionId,
         plan |-> status[i].plan,
         rateLimit30s |-> status[i].rateLimit30s,
         dailyLimit |-> status[i].dailyLimit,
         avgRequestIntervalMs |-> status[i].avgRequestIntervalMs,
         lastUsed |-> status[i].lastUsed,
         nextRequestAllowedAt |->
           status[i].lastUsed + status[i].avgRequestIntervalMs]]

\* getKeyLimits: the limits columns of getAllKeysStatus() and
\* nextRequestAllowedAt, zero for a key never used
getKeyLimits(st) ==
  LET status == getAllKeysStatus(st)
  IN [i \in 1..Len(status) |->
        [subscriptionId |-> status[i].subscriptionId,
         plan |-> status[i].plan,
         rateLimit30s |-> status[i].rateLimit30s,
         dailyLimit |-> status[i].dailyLimit,
         avgRequestIntervalMs |-> status[i].avgRequestIntervalMs,
         lastUsed |-> status[i].lastUsed,
         nextRequestAllowedAt |->
           IF status[i].lastUsed = 0 THEN 0
           ELSE status[i].lastUsed + status[i].avgRequestIntervalMs]]

NewDoc(id, plan, t) ==
  LET limits == getRateLimits(plan)
  IN [subscriptionId |-> id,
      plan |-> plan,
      usedInWindow |-> 0,
      windowStart |-> t,
      usedDaily |-> 0,
      dayStart |-> t,
      status |-> "active",
      rateLimit30s |-> limits.rateLimit30s,
      dailyLimit |-> limits.dailyLimit,
      avgRequestIntervalMs |-> limits.avgRequestIntervalMs,
      lastUsed |-> 0]

(* ------------------------------------------------------------------ *)
(* getAvailableKey: pure parts                                         *)
(* ------------------------------------------------------------------ *)
windowExpired(doc, t) == t - doc.windowStart >= WINDOW_MS
dayExpired(doc, t) == t - doc.dayStart >= DAY_MS
windowCount(doc, t) == IF windowExpired(doc, t) THEN 0 ELSE doc.usedInWindow
dayCount(doc, t) == IF dayExpired(doc, t) THEN 0 ELSE doc.usedDaily

\* the document is marked exhausted by the side write and dropped
NeedsExhaust(doc, t) ==
  /\ doc.status = "active"
  /\ ~dayExpired(doc, t)
  /\ dayCount(doc, t) >= doc.dailyLimit

\* the document is pushed on the candidates array
IsCandidate(doc, t) ==
  /\ doc.status = "active"
  /\ ~NeedsExhaust(doc, t)
  /\ ~(~windowExpired(doc, t) /\ windowCount(doc, t) >= doc.rateLimit30s)

Candidate(doc, t) ==
  [doc |-> doc,
   windowExpired |-> windowExpired(doc, t),
   dayExpired |-> dayExpired(doc, t),
   windowCount |-> windowCount(doc, t),
   dayCount |-> dayCount(doc, t)]

\* an insertion that puts c before the elements of equal windowCount
RECURSIVE InsertSortedFirst(_, _)
InsertSortedFirst(c, s) ==
  IF s = <<>> THEN <<c>>
  ELSE IF c.windowCount <= Head(s).windowCount THEN <<c>> \o s
  ELSE <<Head(s)>> \o InsertSortedFirst(c, Tail(s))

\* stable insertion of c into a sequence sorted by windowCount
RECURSIVE InsertSorted(_, _)
InsertSorted(c, s) ==
  IF s = <<>> THEN <<c>>
  ELSE IF c.windowCount < Head(s).windowCount THEN <<c>> \o s
  ELSE <<Head(s)>> \o InsertSorted(c, Tail(s))

\* the candidates left in document order
SortNone(s) == s

\* candidates.sort((a, b) => a.windowCount - b.windowCount), a stable sort
RECURSIVE SortCandidates(_)
SortCandidates(s) ==
  IF s = <<>> THEN <<>>
  ELSE InsertSorted(s[Len(s)], SortCandidates(SubSeq(s, 1, Len(s) - 1)))

\* ids of the documents the filter loop marks exhausted, in document order
SideWrites(docs, t) ==
  LET sel == SelectSeq(docs, LAMBDA d : NeedsExhaust(d, t))
  IN [i \in 1..Len(sel) |-> sel[i].subscriptionId]

\* the sorted candidates array built from a snapshot at sampled time t
Candidates(docs, t) ==
  LET sel == SelectSeq(docs, LAMBDA d : IsCandidate(d, t))
  IN SortCandidates([i \in 1..Len(sel) |-> Candidate(sel[i], t)])

\* a filter that pins the identity and the status but not the counters
CasFilterNoCounters(d, doc) ==
  /\ d.subscriptionId = doc.subscriptionId
  /\ d.status = doc.status

\* a filter that pins the identity and the counters but not the status
CasFilterNoStatus(d, doc) ==
  /\ d.subscriptionId = doc.subscriptionId
  /\ d.usedInWindow = doc.usedInWindow
  /\ d.windowStart = doc.windowStart
  /\ d.usedDaily = doc.usedDaily
  /\ d.dayStart = doc.dayStart

\* the compare-and-set filter of findOneAndUpdate
CasFilter(d, doc) ==
  /\ d.subscriptionId = doc.subscriptionId
  /\ d.usedInWindow = doc.usedInWindow
  /\ d.windowStart = doc.windowStart
  /\ d.usedDaily = doc.usedDaily
  /\ d.dayStart = doc.dayStart
  /\ d.status = doc.status

\* a count that carries the stored usedInWindow over an expired window
newWindowCountNoReset(c) == c.doc.usedInWindow + 1

newWindowCount(c) == (IF c.windowExpired THEN 0 ELSE c.windowCount) + 1
newDayCount(c) == (IF c.dayExpired THEN 0 ELSE c.dayCount) + 1
willExhaust(c) == ~c.dayExpired /\ newDayCount(c) >= c.doc.dailyLimit

\* the $set of the compare-and-set
CasUpdate(c, attemptTime) ==
  [usedInWindow |-> newWindowCount(c),
   windowStart |-> IF c.windowExpired THEN attemptTime ELSE c.doc.windowStart,
   usedDaily |-> newDayCount(c),
   dayStart |-> IF c.dayExpired THEN attemptTime ELSE c.doc.dayStart,
   lastUsed |-> attemptTime,
   status |-> IF willExhaust(c) THEN "exhausted" ELSE "active"]

(* ------------------------------------------------------------------ *)
(* Process records                                                     *)
(* ------------------------------------------------------------------ *)
NoResult == [status |-> "pending", subscriptionId |-> "", plan |-> ""]
NoneResult == [status |-> "none", subscriptionId |-> "", plan |-> ""]
OkResult(d) == [status |-> "ok", subscriptionId |-> d.subscriptionId, plan |-> d.plan]

IdleReserver(res) ==
  [pc |-> "idle", docs |-> <<>>, now |-> 0, cands |-> <<>>, side |-> <<>>,
   attemptIndex |-> 0, wake |-> 0, result |-> res]

IdleSweep == [pc |-> "idle", now |-> 0, todo |-> <<>>]

IdleReg == [pc |-> "idle", id |-> "", plan |-> "", now |-> 0, existing |-> FALSE]

\* an environment variable: unset, or a string of digits with its value
Unset == [set |-> FALSE, num |-> 0]
Num(n) == [set |-> TRUE, num |-> n]

\* process.env with none of the tuning variables set
NoEnv ==
  [KEY_QUEUE_BACKOFF_MS |-> Unset,
   KEY_QUEUE_MAX_WAIT_MS |-> Unset,
   KEY_QUEUE_CONCURRENCY |-> Unset,
   KEY_QUEUE_REQUEST_TIMEOUT_MS |-> Unset,
   MAILTESTER_PRO_INTERVAL_MS |-> "undefined",
   MAILTESTER_ULTIMATE_INTERVAL_MS |-> "undefined"]

\* the queue: ids of the waiting jobs in arrival order, and every job added
IdleQueue == [waiting |-> <<>>, jobs |-> <<>>]

\* the WATCH state of each connection to Redis: the keys it watches and
\* whether one of them was written since it was watched
Conns == {"c1", "c2"}
NoWatch == [watch |-> {}, dirty |-> FALSE]

\* a .env file: whether it can be read, MAILTESTER_DEFAULT_PLAN, the key
\* JSON (inline or behind MAILTESTER_KEYS_JSON_PATH), the pairs of
\* MAILTESTER_KEYS_WITH_PLAN and the ids of MAILTESTER_KEYS
NoJson == [kind |-> "unset", entries |-> <<>>]
NoFile == [readable |-> TRUE, default |-> "", json |-> NoJson, csv |-> <<>>, list |-> <<>>]

\* the watcher: the debounce timer (0 when none is pending), the times of
\* the change events and of the debounced runSync calls, the .env file,
\* and the performSync calls started
IdleWatcher == [timer |-> 0, events |-> <<>>, runs |-> <<>>, file |-> NoFile, ps |-> <<>>]

\* no HTTP response sent yet
NoResponse == [code |-> 0, status |-> "pending", waitMs |-> 0, key |-> NoResult]

(* ------------------------------------------------------------------ *)
(* Initial state of the processes: nothing in flight                   *)
(* ------------------------------------------------------------------ *)
InitIdle ==
  /\ ticks = 0
  /\ rs = [p \in Procs |-> IdleReserver(NoResult)]
  /\ calls = 0
  /\ ws = IdleSweep
  /\ dsw = IdleSweep
  /\ reg = IdleReg
  /\ sync = IdleReg
  /\ admin = 0
  /\ wq = IdleQueue
  /\ http = [p \in Procs |-> NoResponse]
  /\ redis = [c \in Conns |-> NoWatch]
  /\ watcher = IdleWatcher

InitProcs == InitIdle /\ env = NoEnv

(* ------------------------------------------------------------------ *)
(* Initial states with keys already in use.  Each is a state the       *)
(* service reaches from the empty collection: the key was registered   *)
(* (at RegAt, or at 0 for a key near its daily limit) and reserved the *)
(* stated number of times; issued records those reservations, grouped  *)
(* into one entry per burst with the time of the earliest of them.     *)
(* ------------------------------------------------------------------ *)
RegAt == InitNow - 1

Scenarios(plan) ==
  IF plan = "pro" THEN {"fresh", "oneleft", "full", "dayleft", "exhausted", "spent"}
  ELSE {"fresh", "oneleft", "full"}

ScenDoc(id, plan, scen) ==
  LET d == NewDoc(id, plan, RegAt)
  IN CASE scen = "fresh" -> d
       [] scen = "once" ->
            [d EXCEPT !.usedInWindow = 1, !.usedDaily = 1, !.lastUsed = InitNow]
       [] scen = "oneleft" ->
            [d EXCEPT !.usedInWindow = d.rateLimit30s - 1,
                      !.usedDaily = d.rateLimit30s - 1, !.lastUsed = InitNow]
       [] scen = "full" ->
            [d EXCEPT !.usedInWindow = d.rateLimit30s,
                      !.usedDaily = d.rateLimit30s, !.lastUsed = InitNow]
       [] scen = "dayleft" ->
            [d EXCEPT !.usedInWindow = 1, !.usedDaily = d.dailyLimit - 1,
                      !.dayStart = 0, !.lastUsed = InitNow]
       [] scen = "exhausted" ->
            [d EXCEPT !.usedInWindow = 1, !.usedDaily = d.dailyLimit,
                      !.dayStart = 0, !.lastUsed = InitNow, !.status = "exhausted"]
       [] scen = "spent" ->
            [d EXCEPT !.usedInWindow = d.rateLimit30s, !.usedDaily = d.dailyLimit,
                      !.dayStart = 0, !.lastUsed = InitNow, !.status = "exhausted"]

Issue(d, t, n) ==
  [id |-> d.subscriptionId, at |-> t, n |-> n,
   rateLimit30s |-> d.rateLimit30s, dailyLimit |-> d.dailyLimit,
   avgRequestIntervalMs |-> d.avgRequestIntervalMs, run |-> TRUE]

\* n reservations the earlier run made at time t
Earlier(d, t, n) == [Issue(d, t, n) EXCEPT !.run = FALSE]

ScenIssued(id, plan, scen) ==
  LET d == ScenDoc(id, plan, scen)
  IN CASE scen = "fresh" -> <<>>
       [] scen \in {"once", "oneleft", "full"} -> <<Earlier(d, InitNow, d.usedInWindow)>>
       [] OTHER -> <<Earlier(d, 1, d.usedDaily - d.usedInWindow),
                     Earlier(d, InitNow, d.usedInWindow)>>

\* one key in any scenario, or that key followed by a fresh second key
InitLoaded(withSecond) ==
  \E plan \in {"pro", "ultimate"} : \E scen \in Scenarios(plan) :
    \E second \in (IF withSecond THEN {"none", "pro", "ultimate"} ELSE {"none"}) :
      /\ store = <<ScenDoc("k1", plan, scen)>>
                 \o (IF second = "none" THEN <<>> ELSE <<ScenDoc("k2", second, "fresh")>>)
      /\ issued = ScenIssued("k1", plan, scen)

\* the service starts on the collection an earlier run left: empty, or one key
Init ==
  /\ now = InitNow
  /\ \/ store = <<>> /\ issued = <<>>
     \/ InitLoaded(FALSE)
  /\ InitProcs

InitEngine ==
  /\ now = InitNow
  /\ InitLoaded(FALSE)
  /\ InitProcs

(* ------------------------------------------------------------------ *)
(* Time                                                                *)
(* ------------------------------------------------------------------ *)
\* the instants at which some comparison of the code changes its outcome
Thresholds ==
  {store[i].windowStart + WINDOW_MS : i \in 1..Len(store)}
  \cup {store[i].dayStart + DAY_MS : i \in 1..Len(store)}
  \cup {store[i].lastUsed + store[i].avgRequestIntervalMs : i \in 1..Len(store)}
  \cup {rs[p].wake : p \in Procs}
  \cup {wq.jobs[j].wake : j \in 1..Len(wq.jobs)}
  \cup {wq.jobs[j].deadline + 1 : j \in 1..Len(wq.jobs)}
  \cup {wq.jobs[j].timeoutAt : j \in 1..Len(wq.jobs)}

Tick ==
  /\ ticks < MaxTicks
  /\ \E t \in Thresholds : t > now /\ now' = t
  /\ ticks' = ticks + 1
  /\ UNCHANGED <<store, rs, calls, ws, dsw, reg, sync, admin, issued, env, wq, http, redis, watcher>>

(* ------------------------------------------------------------------ *)
(* getAvailableKey                                                     *)
(* ------------------------------------------------------------------ *)
\* a call that sleeps and takes another round when it has no candidate
AfterFilterRetry(r) ==
  IF r.side # <<>> THEN [r EXCEPT !.pc = "side"]
  ELSE IF r.cands = <<>>
  THEN (IF r.attemptIndex < maxAttempts - 1
        THEN [r EXCEPT !.pc = "sleep", !.docs = <<>>,
                       !.attemptIndex = r.attemptIndex + 1,
                       !.wake = now + RetryDelayMs]
        ELSE IdleReserver(NoneResult))
  ELSE [r EXCEPT !.pc = "walk"]

\* where the call goes after the filter loop has done its side writes
AfterFilter(r) ==
  IF r.side # <<>> THEN [r EXCEPT !.pc = "side"]
  ELSE IF r.cands = <<>> THEN IdleReserver(NoneResult)
  ELSE [r EXCEPT !.pc = "walk"]

\* the call once docs = await collection.find().toArray() has returned
AfterFind(r) ==
  IF store = <<>> THEN IdleReserver(NoneResult)
  ELSE [pc |-> "filter", docs |-> store, now |-> 0, cands |-> <<>>,
        side |-> <<>>,
        attemptIndex |-> IF r.pc = "idle" THEN 0 ELSE r.attemptIndex,
        wake |-> 0, result |-> NoResult]

\* docs = await collection.find().toArray(), first round or after the 20 ms sleep
Find(p) ==
  /\ \/ /\ rs[p].pc = "idle"
        /\ calls < MaxReserves
        /\ calls' = calls + 1
     \/ /\ rs[p].pc = "sleep"
        /\ now >= rs[p].wake
        /\ calls' = calls
  /\ rs' = [rs EXCEPT ![p] = AfterFind(rs[p])]
  /\ UNCHANGED <<store, now, ticks, ws, dsw, reg, sync, admin, issued, env, wq, http, redis, watcher>>

\* now = Date.now() and the loop over the snapshot up to its first await
Filter(p) ==
  /\ rs[p].pc = "filter"
  /\ rs' = [rs EXCEPT ![p] =
       AfterFilter([rs[p] EXCEPT !.now = now,
                                 !.cands = Candidates(rs[p].docs, now),
                                 !.side = SideWrites(rs[p].docs, now)])]
  /\ UNCHANGED <<store, now, ticks, calls, ws, dsw, reg, sync, admin, issued, env, wq, http, redis, watcher>>

\* updateOne({subscriptionId}, {$set: {status: 'exhausted'}})
SideWrite(p) ==
  /\ rs[p].pc = "side"
  /\ LET id == Head(rs[p].side)
     IN /\ store' = updateOne(store, id, [status |-> "exhausted"])
  /\ rs' = [rs EXCEPT ![p] = AfterFilter([rs[p] EXCEPT !.side = Tail(rs[p].side)])]
  /\ UNCHANGED <<now, ticks, calls, ws, dsw, reg, sync, admin, issued, env, wq, http, redis, watcher>>

\* one findOneAndUpdate of the walk over the sorted candidates
Walk(p) ==
  /\ rs[p].pc = "walk"
  /\ LET c == Head(rs[p].cands)
         i == FirstIdx({k \in 1..Len(store) : CasFilter(store[k], c.doc)})
         rest == Tail(rs[p].cands)
     IN IF i # 0
        THEN /\ store' = [store EXCEPT ![i] = applySet(store[i], CasUpdate(c, now))]
             /\ rs' = [rs EXCEPT ![p] = IdleReserver(OkResult(store'[i]))]
             /\ issued' = Append(issued, Issue(store[i], now, 1))
        ELSE /\ rs' = [rs EXCEPT ![p] =
                  IF rest # <<>> THEN [rs[p] EXCEPT !.cands = rest]
                  ELSE IF rs[p].attemptIndex < maxAttempts - 1
                  THEN [rs[p] EXCEPT !.pc = "sleep", !.cands = <<>>, !.docs = <<>>,
                                     !.attemptIndex = rs[p].attemptIndex + 1,
                                     !.wake = now + RetryDelayMs]
                  ELSE IdleReserver(NoneResult)]
             /\ UNCHANGED <<store, issued>>
  /\ UNCHANGED <<now, ticks, calls, ws, dsw, reg, sync, admin, env, wq, http, redis, watcher>>

(* ------------------------------------------------------------------ *)
(* Cron sweeps                                                         *)
(* ------------------------------------------------------------------ *)
\* id and status of the snapshot's documents whose anchor is at least span
\* before t, in document order
DueIds(docs, t, anchor, span) ==
  LET sel == SelectSeq(docs, LAMBDA d : t - d[anchor] >= span)
  IN [i \in 1..Len(sel) |-> [id |-> sel[i].subscriptionId, status |-> sel[i].status]]

\* resetWindowsForAll: now = Date.now(); docs = find().toArray()
WindowSweepStart ==
  /\ ws.pc = "idle"
  /\ LET todo == DueIds(store, now, "windowStart", WINDOW_MS)
     IN /\ todo # <<>>
        /\ ws' = [pc |-> "write", now |-> now, todo |-> todo]
  /\ UNCHANGED <<store, now, ticks, rs, calls, dsw, reg, sync, admin, issued, env, wq, http, redis, watcher>>

\* resetWindowsForAll: one updateOne of the loop
WindowSweepWrite ==
  /\ ws.pc = "write"
  /\ LET e == Head(ws.todo)
     IN /\ store' = updateOne(store, e.id, [usedInWindow |-> 0, windowStart |-> ws.now])
  /\ ws' = IF Tail(ws.todo) = <<>> THEN IdleSweep ELSE [ws EXCEPT !.todo = Tail(ws.todo)]
  /\ UNCHANGED <<now, ticks, rs, calls, dsw, reg, sync, admin, issued, env, wq, http, redis, watcher>>

\* resetDailyForAll: now = Date.now(); docs = find().toArray()
DaySweepStart ==
  /\ dsw.pc = "idle"
  /\ LET todo == DueIds(store, now, "dayStart", DAY_MS)
     IN /\ todo # <<>>
        /\ dsw' = [pc |-> "write", now |-> now, todo |-> todo]
  /\ UNCHANGED <<store, now, ticks, rs, calls, ws, reg, sync, admin, issued, env, wq, http, redis, watcher>>

\* a day-sweep write that resets the counter and leaves the status alone
DayResetNoReactivate(e, t) ==
  [usedDaily |-> 0, dayStart |-> t]

\* the updates of one day-sweep write, from the status the sweep read
DayReset(e, t) ==
  IF e.status = "exhausted"
  THEN [usedDaily |-> 0, dayStart |-> t, status |-> "active"]
  ELSE [usedDaily |-> 0, dayStart |-> t]

\* resetDailyForAll: one updateOne of the loop
DaySweepWrite ==
  /\ dsw.pc = "write"
  /\ LET e == Head(dsw.todo)
     IN /\ store' = updateOne(store, e.id, DayReset(e, dsw.now))
  /\ dsw' = IF Tail(dsw.todo) = <<>> THEN IdleSweep ELSE [dsw EXCEPT !.todo = Tail(dsw.todo)]
  /\ UNCHANGED <<now, ticks, rs, calls, ws, reg, sync, admin, issued, env, wq, http, redis, watcher>>

\* a window reset that moves the anchor one window on
WindowResetStep(doc, t) ==
  [usedInWindow |-> 0, windowStart |-> doc.windowStart + WINDOW_MS]

\* the updates of one window-sweep write
WindowReset(doc, t) ==
  [usedInWindow |-> 0, windowStart |-> t]

\* the updateOne loop of resetWindowsForAll over the documents it found due
RECURSIVE ApplyWindow(_, _, _)
ApplyWindow(st, todo, t) ==
  IF todo = <<>> THEN st
  ELSE ApplyWindow(updateOne(st, Head(todo).id,
                             WindowReset(DocOf(st, Head(todo).id), t)),
                   Tail(todo), t)

\* resetWindowsForAll run at time t with no other operation during it
resetWindowsForAll(st, t) ==
  ApplyWindow(st, DueIds(st, t, "windowStart", WINDOW_MS), t)

\* the updateOne loop of resetDailyForAll over the documents it found due
RECURSIVE ApplyDaily(_, _, _)
ApplyDaily(st, todo, t) ==
  IF todo = <<>> THEN st
  ELSE ApplyDaily(updateOne(st, Head(todo).id, DayReset(Head(todo), t)),
                  Tail(todo), t)

\* resetDailyForAll run at time t with no other operation during it
resetDailyForAll(st, t) ==
  ApplyDaily(st, DueIds(st, t, "dayStart", DAY_MS), t)

\* a whole run of resetWindowsForAll that finds a window elapsed
WindowSweepRun ==
  /\ DueIds(store, now, "windowStart", WINDOW_MS) # <<>>
  /\ store' = resetWindowsForAll(store, now)
  /\ UNCHANGED <<now, ticks, rs, calls, ws, dsw, reg, sync, admin, issued, env, wq, http, redis, watcher>>

\* a whole run of resetDailyForAll that finds a day elapsed
DaySweepRun ==
  /\ DueIds(store, now, "dayStart", DAY_MS) # <<>>
  /\ store' = resetDailyForAll(store, now)
  /\ UNCHANGED <<now, ticks, rs, calls, ws, dsw, reg, sync, admin, issued, env, wq, http, redis, watcher>>

(* ------------------------------------------------------------------ *)
(* Registry                                                            *)
(* ------------------------------------------------------------------ *)
\* registerKey: now = Date.now(); existing = await collection.findOne(...)
RegisterFind(id, plan) ==
  /\ reg.pc = "idle"
  /\ admin < MaxAdmin
  /\ admin' = admin + 1
  /\ reg' = [pc |-> "write", id |-> id, plan |-> ToLower(plan), now |-> now,
             existing |-> HasId(store, id)]
  /\ UNCHANGED <<store, now, ticks, rs, calls, ws, dsw, sync, issued, env, wq, http, redis, watcher>>

\* an update branch that leaves the stored plan alone
RegUpdateLimitsOnly(plan) ==
  LET limits == getRateLimits(plan)
  IN [rateLimit30s |-> limits.rateLimit30s,
      dailyLimit |-> limits.dailyLimit,
      avgRequestIntervalMs |-> limits.avgRequestIntervalMs]

\* an update branch that also starts a new window
RegUpdateReset(plan) ==
  LET limits == getRateLimits(plan)
  IN [plan |-> plan,
      rateLimit30s |-> limits.rateLimit30s,
      dailyLimit |-> limits.dailyLimit,
      avgRequestIntervalMs |-> limits.avgRequestIntervalMs,
      usedInWindow |-> 0]

\* the updates of the update branch of registerKey
RegUpdate(plan) ==
  LET limits == getRateLimits(plan)
  IN [plan |-> plan,
      rateLimit30s |-> limits.rateLimit30s,
      dailyLimit |-> limits.dailyLimit,
      avgRequestIntervalMs |-> limits.avgRequestIntervalMs]

\* registerKey: insertOne(doc) or updateOne({subscriptionId}, {$set: updates})
RegisterWrite ==
  /\ reg.pc = "write"
  /\ store' = IF ~reg.existing
              THEN insertOne(store, NewDoc(reg.id, reg.plan, reg.now))
              ELSE updateOne(store, reg.id, RegUpdate(reg.plan))
  /\ reg' = IdleReg
  /\ UNCHANGED <<now, ticks, rs, calls, ws, dsw, sync, admin, issued, env, wq, http, redis, watcher>>

\* performSync of the watcher calls registerKey: findOne
SyncFind(id, plan) ==
  /\ sync.pc = "idle"
  /\ sync' = [pc |-> "write", id |-> id, plan |-> ToLower(plan), now |-> now,
              existing |-> HasId(store, id)]
  /\ UNCHANGED <<store, now, ticks, rs, calls, ws, dsw, reg, admin, issued, env, wq, http, redis, watcher>>

\* performSync of the watcher calls registerKey: insertOne or updateOne; a
\* rejected insert is caught and logged by performSync, the run is over
SyncWrite ==
  /\ sync.pc = "write"
  /\ store' = IF ~sync.existing
              THEN insertOne(store, NewDoc(sync.id, sync.plan, sync.now))
              ELSE updateOne(store, sync.id, RegUpdate(sync.plan))
  /\ sync' = [sync EXCEPT !.pc = IF ~sync.existing /\ HasId(store, sync.id)
                                 THEN "failed" ELSE "done"]
  /\ UNCHANGED <<now, ticks, rs, calls, ws, dsw, reg, admin, issued, env, wq, http, redis, watcher>>

\* deleteKey: collection.deleteOne({subscriptionId})
DeleteKey(id) ==
  /\ HasId(store, id)
  /\ admin < MaxAdmin
  /\ admin' = admin + 1
  /\ store' = deleteOne(store, id)
  /\ UNCHANGED <<now, ticks, rs, calls, ws, dsw, reg, sync, issued, env, wq, http, redis, watcher>>

\* deleteKey of an id that is not stored: deleteOne matches nothing
DeleteAbsent(id) ==
  /\ ~HasId(store, id)
  /\ admin < MaxAdmin
  /\ admin' = admin + 1
  /\ store' = deleteOne(store, id)
  /\ UNCHANGED <<now, ticks, rs, calls, ws, dsw, reg, sync, issued, env, wq, http, redis, watcher>>

\* deleteKey of a stored id at any moment: each one removes a document, so
\* there are no more of them than registrations that insert
DeleteAny(id) ==
  /\ HasId(store, id)
  /\ store' = deleteOne(store, id)
  /\ UNCHANGED <<now, ticks, rs, calls, ws, dsw, reg, sync, admin, issued, env, wq, http, redis, watcher>>

(* ------------------------------------------------------------------ *)
(* Token service                                                       *)
(* ------------------------------------------------------------------ *)
\* fetchAndStoreToken, 200 with a token: $set {token, lastRefresh, status: 'active'}
TokenOk(id) ==
  /\ HasId(store, id)
  /\ admin < MaxAdmin
  /\ admin' = admin + 1
  /\ store' = updateOne(store, id, [status |-> "active"])
  /\ UNCHANGED <<now, ticks, rs, calls, ws, dsw, reg, sync, issued, env, wq, http, redis, watcher>>

\* fetchAndStoreToken, 401 or 403: $set {status: 'banned', lastRefresh}
TokenBanned(id) ==
  /\ HasId(store, id)
  /\ admin < MaxAdmin
  /\ admin' = admin + 1
  /\ store' = updateOne(store, id, [status |-> "banned"])
  /\ UNCHANGED <<now, ticks, rs, calls, ws, dsw, reg, sync, issued, env, wq, http, redis, watcher>>

(* ------------------------------------------------------------------ *)
(* Wait queue: GET /key/available/queued and the queue worker          *)
(* ------------------------------------------------------------------ *)
\* Number(process.env.X || dflt)
EnvNumber(raw, dflt) == IF raw.set THEN raw.num ELSE dflt

backoffMs == EnvNumber(env.KEY_QUEUE_BACKOFF_MS, DEFAULT_BACKOFF_MS)
maxWaitMs == EnvNumber(env.KEY_QUEUE_MAX_WAIT_MS, DEFAULT_MAX_WAIT_MS)
concurrency == EnvNumber(env.KEY_QUEUE_CONCURRENCY, DEFAULT_CONCURRENCY)
timeoutMs == EnvNumber(env.KEY_QUEUE_REQUEST_TIMEOUT_MS, 0)

\* the deadline of a job that has none
Infinity == -1

\* a worker that gives every job a deadline, also with maxWaitMs = 0
deadlineAlways(maxWait, t) == t + maxWait

\* a worker that gives no job a deadline
deadlineNever(maxWait, t) == Infinity

\* enforceDeadline ? Date.now() + maxWaitMs : Infinity
deadlineOf(maxWait, t) == IF maxWait > 0 THEN t + maxWait ELSE Infinity

\* Date.now() <= deadline
NotAfter(t, deadline) == deadline = Infinity \/ t <= deadline

\* Number(rawValue), in tenths of a millisecond, of the strings the model uses
ToNumber(rawValue) ==
  CASE rawValue \in {"undefined", "abc"} -> [finite |-> FALSE, tenths |-> 0]
    [] rawValue \in {"", "0"} -> [finite |-> TRUE, tenths |-> 0]
    [] rawValue = "-5" -> [finite |-> TRUE, tenths |-> 0 - 50]
    [] rawValue = "0.5" -> [finite |-> TRUE, tenths |-> 5]
    [] rawValue = "99.9" -> [finite |-> TRUE, tenths |-> 999]
    [] rawValue = "200" -> [finite |-> TRUE, tenths |-> 2000]
    [] rawValue = "1000" -> [finite |-> TRUE, tenths |-> 10000]

resolveIntervalMs(rawValue, fallback) ==
  LET numeric == ToNumber(rawValue)
  IN IF numeric.finite /\ numeric.tenths > 0 THEN numeric.tenths \div 10 ELSE fallback

\* a wait hint that is the larger of the two intervals
getDefaultWaitMsMax ==
  LET proInterval == resolveIntervalMs(env.MAILTESTER_PRO_INTERVAL_MS,
                                       DEFAULT_PRO_INTERVAL_MS)
      ultimateInterval == resolveIntervalMs(env.MAILTESTER_ULTIMATE_INTERVAL_MS,
                                            DEFAULT_ULTIMATE_INTERVAL_MS)
  IN IF proInterval >= ultimateInterval THEN proInterval ELSE ultimateInterval

getDefaultWaitMs ==
  LET proInterval == resolveIntervalMs(env.MAILTESTER_PRO_INTERVAL_MS,
                                       DEFAULT_PRO_INTERVAL_MS)
      ultimateInterval == resolveIntervalMs(env.MAILTESTER_ULTIMATE_INTERVAL_MS,
                                            DEFAULT_ULTIMATE_INTERVAL_MS)
  IN IF proInterval <= ultimateInterval THEN proInterval ELSE ultimateInterval

OkResponse(key) == [code |-> 200, status |-> "ok", waitMs |-> 0, key |-> key]
WaitResponse(code) ==
  [code |-> code, status |-> "wait", waitMs |-> getDefaultWaitMs, key |-> NoResult]

ErrorResponse == [code |-> 500, status |-> "error", waitMs |-> 0, key |-> NoResult]

\* the message of the error waitUntilFinished rejects with after waitTimeout
WaitTimeoutMessage == "Job wait key-request timed out before finishing"

\* the message of the error getAvailableKey rejects with when the database
\* connection is lost
DriverMessages == {"connect ECONNREFUSED"}

\* the parts of a message that String.prototype.includes is asked about
MessageParts(message) ==
  CASE message = "QUEUE_TIMEOUT" -> <<"QUEUE_TIMEOUT">>
    [] message = WaitTimeoutMessage ->
         <<"Job wait key-request", "timed out", "before finishing">>
    [] OTHER -> <<message>>

\* message.includes(needle)
Includes(message, needle) ==
  \E k \in 1..Len(MessageParts(message)) : MessageParts(message)[k] = needle

\* message.toLowerCase().includes(needle)
LowerIncludes(message, needle) ==
  \E k \in 1..Len(MessageParts(message)) : ToLower(MessageParts(message)[k]) = needle

\* a catch block that knows the worker's QUEUE_TIMEOUT only
CatchResponseWorkerOnly(message) ==
  IF Includes(message, "QUEUE_TIMEOUT") THEN WaitResponse(429) ELSE ErrorResponse

\* catch (err): 429 wait for QUEUE_TIMEOUT or 'timed out', else 500
CatchResponse(message) ==
  IF Includes(message, "QUEUE_TIMEOUT") \/ LowerIncludes(message, "timed out")
  THEN WaitResponse(429)
  ELSE ErrorResponse

\* a job as keyQueue.add leaves it, its requester in waitUntilFinished
NewJob(t) ==
  [st |-> "waiting", proc |-> "", pc |-> "", startedAt |-> 0, deadline |-> 0,
   wake |-> 0,
   timeoutAt |-> IF timeoutMs > 0 THEN t + timeoutMs ELSE 0,
   key |-> NoResult, err |-> "", resp |-> NoResponse]

\* the job once its processor has returned or thrown: its locals are gone
Settled(job, st, key, err) ==
  [job EXCEPT !.st = st, !.key = key, !.err = err, !.pc = "", !.proc = "",
              !.startedAt = 0, !.deadline = 0, !.wake = 0]

Finished(job) == job.st \in {"completed", "failed"}

ActiveJobs == {j \in 1..Len(wq.jobs) : wq.jobs[j].st = "active"}

\* job = await keyQueue.add('key-request', {}, ...)
Enqueue ==
  /\ Len(wq.jobs) < MaxJobs
  /\ wq' = [waiting |-> Append(wq.waiting, Len(wq.jobs) + 1),
            jobs |-> Append(wq.jobs, NewJob(now))]
  /\ UNCHANGED <<store, now, ticks, rs, calls, ws, dsw, reg, sync, admin, issued, env, http, redis, watcher>>

\* the job taken last from the wait list
LastJob(waiting) == waiting[Len(waiting)]

\* the job a free worker slot takes from the wait list: the oldest one
NextJob(waiting) == Head(waiting)

\* the slots of the worker, in a fixed order
Slots == <<"r1", "r2">>

FreeSlots ==
  {k \in 1..Len(Slots) :
     /\ rs[Slots[k]].pc = "idle"
     /\ \A j \in ActiveJobs : wq.jobs[j].proc # Slots[k]}

\* the worker starts its processor on a waiting job: backoffMs, maxWaitMs,
\* enforceDeadline and deadline are computed
Dequeue ==
  /\ wq.waiting # <<>>
  /\ Cardinality(ActiveJobs) < concurrency
  /\ FreeSlots # {}
  /\ LET j == NextJob(wq.waiting)
         p == Slots[FirstIdx(FreeSlots)]
     IN /\ wq' = [waiting |-> SelectSeq(wq.waiting, LAMBDA x : x # j),
                  jobs |-> [wq.jobs EXCEPT ![j] =
                     [@ EXCEPT !.st = "active", !.proc = p, !.pc = "check",
                               !.startedAt = now,
                               !.deadline = deadlineOf(maxWaitMs, now)]]]
        /\ rs' = [rs EXCEPT ![p] = IdleReserver(NoResult)]
  /\ UNCHANGED <<store, now, ticks, calls, ws, dsw, reg, sync, admin, issued, env, http, redis, watcher>>

\* while (Date.now() <= deadline): enter getAvailableKey up to its find(), or
\* leave the loop and throw QUEUE_TIMEOUT
WorkerCheck(j) ==
  /\ j \in ActiveJobs
  /\ wq.jobs[j].pc = "check"
  /\ LET job == wq.jobs[j]
     IN IF NotAfter(now, job.deadline)
        THEN /\ rs' = [rs EXCEPT ![job.proc] = AfterFind(IdleReserver(NoResult))]
             /\ wq' = [wq EXCEPT !.jobs[j].pc = "call"]
        ELSE /\ wq' = [wq EXCEPT !.jobs[j] =
                         Settled(job, "failed", NoResult, "QUEUE_TIMEOUT")]
             /\ UNCHANGED rs
  /\ UNCHANGED <<store, now, ticks, calls, ws, dsw, reg, sync, admin, issued, env, http, redis, watcher>>

\* getAvailableKey has returned: return key, or sleep backoffMs
WorkerReturn(j) ==
  /\ j \in ActiveJobs
  /\ wq.jobs[j].pc = "call"
  /\ LET job == wq.jobs[j]
         r == rs[job.proc]
     IN /\ r.pc = "idle"
        /\ r.result.status \in {"ok", "none"}
        /\ wq' = [wq EXCEPT !.jobs[j] =
                    IF r.result.status = "ok"
                    THEN Settled(job, "completed", r.result, "")
                    ELSE [job EXCEPT !.pc = "sleep", !.wake = now + backoffMs]]
        /\ rs' = [rs EXCEPT ![job.proc] = IdleReserver(NoResult)]
  /\ UNCHANGED <<store, now, ticks, calls, ws, dsw, reg, sync, admin, issued, env, http, redis, watcher>>

\* the backoff timer fires
WorkerWake(j) ==
  /\ j \in ActiveJobs
  /\ wq.jobs[j].pc = "sleep"
  /\ now >= wq.jobs[j].wake
  /\ wq' = [wq EXCEPT !.jobs[j].pc = "check"]
  /\ UNCHANGED <<store, now, ticks, rs, calls, ws, dsw, reg, sync, admin, issued, env, http, redis, watcher>>

\* the second and third round of getAvailableKey, after its 20 ms sleep
FindRetry(p) == rs[p].pc = "sleep" /\ Find(p)

\* await keyManager.getAvailableKey() rejects: the processor throws the error
WorkerThrow(j) ==
  /\ j \in ActiveJobs
  /\ wq.jobs[j].pc = "call"
  /\ rs[wq.jobs[j].proc].pc \in {"filter", "walk"}
  /\ \E message \in DriverMessages :
       wq' = [wq EXCEPT !.jobs[j] = Settled(wq.jobs[j], "failed", NoResult, message)]
  /\ rs' = [rs EXCEPT ![wq.jobs[j].proc] = IdleReserver(NoResult)]
  /\ UNCHANGED <<store, now, ticks, calls, ws, dsw, reg, sync, admin, issued, env, http, redis, watcher>>

\* waitUntilFinished settles: 200 ok with the key, or the catch block on the
\* error the job failed with
Respond(j) ==
  /\ j \in 1..Len(wq.jobs)
  /\ Finished(wq.jobs[j])
  /\ wq.jobs[j].resp = NoResponse
  /\ wq' = [wq EXCEPT !.jobs[j].resp =
                         IF wq.jobs[j].st = "completed"
                         THEN OkResponse(wq.jobs[j].key)
                         ELSE CatchResponse(wq.jobs[j].err),
                       !.jobs[j].timeoutAt = 0]
  /\ UNCHANGED <<store, now, ticks, rs, calls, ws, dsw, reg, sync, admin, issued, env, http, redis, watcher>>

\* a requester timeout that also takes the job away from the worker
TimedOutCancel(job) ==
  [Settled(job, "failed", NoResult, "timed out")
     EXCEPT !.resp = WaitResponse(429), !.timeoutAt = 0]

\* the job after its requester was answered 429 wait on 'timed out'
TimedOut(job) == [job EXCEPT !.resp = CatchResponse(WaitTimeoutMessage)]

\* waitUntilFinished rejects after waitTimeout
RequestTimeout(j) ==
  /\ j \in 1..Len(wq.jobs)
  /\ wq.jobs[j].resp = NoResponse
  /\ wq.jobs[j].timeoutAt > 0
  /\ now >= wq.jobs[j].timeoutAt
  /\ wq' = [wq EXCEPT !.jobs[j] = TimedOut(wq.jobs[j])]
  /\ UNCHANGED <<store, now, ticks, rs, calls, ws, dsw, reg, sync, admin, issued, env, http, redis, watcher>>

\* GET /key/available: the response to the key getAvailableKey returned
RouteRespond(p) ==
  /\ rs[p].pc = "idle"
  /\ rs[p].result.status \in {"ok", "none"}
  /\ http' = [http EXCEPT ![p] =
                IF rs[p].result.status = "none" THEN WaitResponse(200)
                ELSE OkResponse(rs[p].result)]
  /\ rs' = [rs EXCEPT ![p] = IdleReserver(NoResult)]
  /\ UNCHANGED <<store, now, ticks, calls, ws, dsw, reg, sync, admin, issued, env, wq, redis, watcher>>

\* GET /status: res.json(await keyManager.getAllKeysStatus())
StatusRoute(p) ==
  /\ http' = [http EXCEPT ![p] = [code |-> 200, body |-> getAllKeysStatus(store)]]
  /\ http'[p] # http[p]
  /\ UNCHANGED <<store, now, ticks, rs, calls, ws, dsw, reg, sync, admin, issued, env, wq, redis, watcher>>

\* GET /limits: res.json(await keyManager.getKeyLimits())
LimitsRoute(p) ==
  /\ http' = [http EXCEPT ![p] = [code |-> 200, body |-> getKeyLimits(store)]]
  /\ http'[p] # http[p]
  /\ UNCHANGED <<store, now, ticks, rs, calls, ws, dsw, reg, sync, admin, issued, env, wq, redis, watcher>>

(* ------------------------------------------------------------------ *)
(* Specification from the empty collection                             *)
(* ------------------------------------------------------------------ *)
Reserve(P) == \E p \in P : Find(p) \/ Filter(p) \/ SideWrite(p) \/ Walk(p)
Sweeps == WindowSweepStart \/ WindowSweepWrite \/ DaySweepStart \/ DaySweepWrite
Registry(I) ==
  \/ \E id \in I, plan \in PlanInputs : RegisterFind(id, plan)
  \/ RegisterWrite
  \/ \E id \in I : DeleteKey(id)
Tokens(I) == \E id \in I : TokenOk(id) \/ TokenBanned(id)

\* one caller and one subscription id, every operation of the service
Next == Tick \/ Reserve({"r1"}) \/ Sweeps \/ Registry({"k1"}) \/ Tokens({"k1"})

Spec == Init /\ [][Next]_vars

(* ------------------------------------------------------------------ *)
(* The engine and the sweeps on a loaded collection                    *)
(* ------------------------------------------------------------------ *)
NextEngine ==
  \/ Tick
  \/ \E p \in Procs : Find(p) \/ Filter(p) \/ Walk(p)
  \/ Sweeps

SpecEngine == InitEngine /\ [][NextEngine]_vars

(* ------------------------------------------------------------------ *)
(* Concurrent callers on one key with one slot left in its window      *)
(* ------------------------------------------------------------------ *)
InitWinner ==
  /\ now = InitNow
  /\ \E plan \in {"pro", "ultimate"} :
       /\ store = <<ScenDoc("k1", plan, "oneleft")>>
       /\ issued = ScenIssued("k1", plan, "oneleft")
  /\ InitProcs

NextWinner == Tick \/ \E p \in Procs : Find(p) \/ Filter(p) \/ Walk(p)

SpecWinner == InitWinner /\ [][NextWinner]_vars

(* ------------------------------------------------------------------ *)
(* Concurrent callers while the token service changes the status       *)
(* ------------------------------------------------------------------ *)
InitStatus ==
  /\ now = InitNow
  /\ \E scen \in Scenarios("pro") :
       /\ store = <<ScenDoc("k1", "pro", scen)>>
       /\ issued = ScenIssued("k1", "pro", scen)
  /\ InitProcs

NextStatus == Tick \/ Reserve(Procs) \/ Tokens({"k1"})

SpecStatus == InitStatus /\ [][NextStatus]_vars

(* ------------------------------------------------------------------ *)
(* The day sweep beside one caller                                     *)
(* ------------------------------------------------------------------ *)
NextDaySweep ==
  \/ Tick
  \/ DaySweepStart \/ DaySweepWrite
  \/ Find("r1") \/ Filter("r1") \/ Walk("r1")

SpecDaySweep == InitEngine /\ [][NextDaySweep]_vars

(* ------------------------------------------------------------------ *)
(* The registry beside one caller                                      *)
(* ------------------------------------------------------------------ *)
NextRegistry ==
  \/ Tick
  \/ Registry({"k1"})
  \/ Find("r1") \/ Filter("r1") \/ Walk("r1")

SpecRegistry == Init /\ [][NextRegistry]_vars

(* ------------------------------------------------------------------ *)
(* deleteKey beside one caller and the sweeps                           *)
(* ------------------------------------------------------------------ *)
InitDelete ==
  /\ now = InitNow
  /\ \E scen \in {"oneleft", "spent"} :
       /\ store = <<ScenDoc("k1", "pro", scen)>>
       /\ issued = ScenIssued("k1", "pro", scen)
  /\ InitProcs

\* no stored key is active with its daily limit reached: the filter loop of
\* the caller has no side write to do
NextDelete ==
  \/ Tick
  \/ Find("r1") \/ Filter("r1") \/ Walk("r1")
  \/ Sweeps
  \/ \E id \in Ids : DeleteKey(id) \/ DeleteAbsent(id)

SpecDelete == InitDelete /\ [][NextDelete]_vars

(* ------------------------------------------------------------------ *)
(* registerKey beside deleteKey, one caller and the sweeps             *)
(* ------------------------------------------------------------------ *)
\* the key was registered and used a day ago: both sweeps are due and the key
\* is free to serve
InitDurable ==
  /\ now = InitNow + DAY_MS
  /\ store = <<ScenDoc("k1", "pro", "oneleft")>>
  /\ issued = ScenIssued("k1", "pro", "oneleft")
  /\ InitProcs

\* the operations run within one millisecond of each other
NextDurable ==
  \/ Find("r1") \/ Filter("r1") \/ Walk("r1")
  \/ Sweeps
  \/ \E plan \in PlanInputs : RegisterFind("k1", plan)
  \/ RegisterWrite
  \/ DeleteAny("k1")

SpecDurable == InitDurable /\ [][NextDurable]_vars

(* ------------------------------------------------------------------ *)
(* registerKey from the route and from the watcher at once             *)
(* ------------------------------------------------------------------ *)
NextRegisters ==
  \/ \E id \in Ids, plan \in PlanInputs : RegisterFind(id, plan)
  \/ RegisterWrite
  \/ \E id \in Ids, plan \in PlanInputs : SyncFind(id, plan)
  \/ SyncWrite
  \/ \E id \in Ids : DeleteAny(id)

SpecRegisters == Init /\ [][NextRegisters]_vars

(* ------------------------------------------------------------------ *)
(* The callers of registerKey                                          *)
(* ------------------------------------------------------------------ *)
\* plan strings of request bodies and of the key lists, "" when absent
RawPlans == {"", "pro", "Pro", "ultimate", "Free"}

\* values of MAILTESTER_DEFAULT_PLAN, "" when unset
RawDefaults == {"", "pro", "Free"}

\* POST /keys: 400 unless the lower-cased plan is pro or ultimate
PostKeys(id, plan) ==
  /\ ToLower(Or(plan, "")) \in {"pro", "ultimate"}
  /\ RegisterFind(id, ToLower(Or(plan, "")))

\* initializeKeysFromEnv, MAILTESTER_KEYS_JSON and MAILTESTER_KEYS_WITH_PLAN
PreloadPairs(id, plan, default) ==
  RegisterFind(id, normalizePlan(Or(plan, defaultPlanOf(default))))

\* initializeKeysFromEnv, MAILTESTER_KEYS: registerKey(id, defaultPlan)
PreloadList(id, default) ==
  RegisterFind(id, defaultPlanOf(default))

\* the watcher's performSync: keys of the .env file whose stored plan differs
WatcherApply(id, plan, default) ==
  LET desired == normalizePlan(Or(plan, defaultPlanOf(default)))
  IN /\ ~(HasId(store, id) /\ DocOf(store, id).plan = desired)
     /\ RegisterFind(id, desired)

NextPlans ==
  \/ \E id \in Ids, plan \in RawPlans : PostKeys(id, plan)
  \/ \E id \in Ids, plan \in RawPlans, default \in RawDefaults :
       PreloadPairs(id, plan, default)
  \/ \E id \in Ids, default \in RawDefaults : PreloadList(id, default)
  \/ \E id \in Ids, plan \in RawPlans, default \in RawDefaults :
       WatcherApply(id, plan, default)
  \/ RegisterWrite

SpecPlans == Init /\ [][NextPlans]_vars

(* ------------------------------------------------------------------ *)
(* One caller on a pool of two keys, no other writer                   *)
(* ------------------------------------------------------------------ *)
InitPair ==
  /\ now = InitNow
  /\ \E p1 \in {"pro", "ultimate"}, p2 \in {"pro", "ultimate"} :
       \E s1 \in Scenarios(p1), s2 \in {"fresh", "oneleft", "full"} :
         /\ store = <<ScenDoc("k1", p1, s1), ScenDoc("k2", p2, s2)>>
         /\ issued = ScenIssued("k1", p1, s1) \o ScenIssued("k2", p2, s2)
  /\ InitProcs

NextPair == Tick \/ Find("r1") \/ Filter("r1") \/ Walk("r1")

SpecPair == InitPair /\ [][NextPair]_vars

(* ------------------------------------------------------------------ *)
(* Whole sweep runs between the calls of one caller                    *)
(* ------------------------------------------------------------------ *)
InitSweeps ==
  /\ now = InitNow
  /\ \E s1 \in {"oneleft", "spent"}, s2 \in {"fresh", "full"} :
       /\ store = <<ScenDoc("k1", "pro", s1), ScenDoc("k2", "ultimate", s2)>>
       /\ issued = ScenIssued("k1", "pro", s1) \o ScenIssued("k2", "ultimate", s2)
  /\ InitProcs

NextSweeps ==
  \/ Tick
  \/ WindowSweepRun
  \/ DaySweepRun
  \/ Find("r1") \/ Filter("r1") \/ Walk("r1")

SpecSweeps == InitSweeps /\ [][NextSweeps]_vars

(* ------------------------------------------------------------------ *)
(* GET /status and GET /limits beside one caller                       *)
(* ------------------------------------------------------------------ *)
InitLimits ==
  /\ now = InitNow
  /\ \E s1 \in {"fresh", "oneleft"}, s2 \in {"fresh", "full"} :
       /\ store = <<ScenDoc("k1", "pro", s1), ScenDoc("k2", "ultimate", s2)>>
       /\ issued = ScenIssued("k1", "pro", s1) \o ScenIssued("k2", "ultimate", s2)
  /\ InitProcs

NextLimits ==
  \/ Tick
  \/ Find("r1") \/ Filter("r1") \/ Walk("r1")
  \/ StatusRoute("r2")
  \/ LimitsRoute("r2")

SpecLimits == InitLimits /\ [][NextLimits]_vars

(* ------------------------------------------------------------------ *)
(* One caller on two keys stored in either order                       *)
(* ------------------------------------------------------------------ *)
InitTies ==
  /\ now = InitNow
  /\ \E a \in Ids, b \in Ids :
       \E sa \in {"fresh", "once"}, sb \in {"fresh", "once"} :
         /\ a # b
         /\ store = <<ScenDoc(a, "pro", sa), ScenDoc(b, "pro", sb)>>
         /\ issued = ScenIssued(a, "pro", sa) \o ScenIssued(b, "pro", sb)
  /\ InitProcs

NextTies == Tick \/ Find("r1") \/ Filter("r1") \/ Walk("r1")

SpecTies == InitTies /\ [][NextTies]_vars

(* ------------------------------------------------------------------ *)
(* The rounds of getAvailableKey against callers and sweeps             *)
(* ------------------------------------------------------------------ *)
\* the scenarios of a key whose window and day have both elapsed at the
\* start: free to serve, or banned since
RoundDocs ==
  {ScenDoc("k1", "pro", "oneleft"),
   [ScenDoc("k1", "pro", "oneleft") EXCEPT !.status = "banned"]}

InitRounds ==
  /\ now = InitNow + DAY_MS
  /\ store \in {<<d>> : d \in RoundDocs}
  /\ issued = ScenIssued("k1", "pro", "oneleft")
  /\ InitProcs

\* the 20 ms timer of the earliest sleeping call fires
TickWake ==
  /\ \E p \in Procs :
       /\ rs[p].pc = "sleep"
       /\ rs[p].wake > now
       /\ \A q \in Procs :
            (rs[q].pc = "sleep" /\ rs[q].wake > now) => rs[p].wake <= rs[q].wake
       /\ now' = rs[p].wake
  /\ UNCHANGED <<store, ticks, rs, calls, ws, dsw, reg, sync, admin, issued, env, wq, http, redis, watcher>>

Callers == \E p \in Procs : Find(p) \/ Filter(p) \/ Walk(p)

NextRounds ==
  \/ TickWake
  \/ Callers
  \/ Sweeps

\* every await of a call resolves and every timer fires
SpecRounds ==
  /\ InitRounds
  /\ [][NextRounds]_vars
  /\ WF_vars(TickWake)
  /\ WF_vars(Callers)

(* ------------------------------------------------------------------ *)
(* The Redis-backed getAvailableKey (src/keyManager.js)                *)
(* ------------------------------------------------------------------ *)
\* a caller of the Redis variant, issuing its commands on connection c;
\* it retries without sleeping, so it never has a wake time
RedisIdle(c, res) ==
  [pc |-> "idle", conn |-> c, chosen |-> "", attempt |-> 0, now |-> 0,
   current |-> <<>>, wake |-> 0, result |-> res]

redisMaxAttempts == 5

\* skip if this key's window hasn't reset and it's full
RedisWindowFull(d, t) == t - d.windowStart < WINDOW_MS /\ d.usedInWindow >= d.rateLimit30s

\* skip if this key has hit its daily limit
RedisDayFull(d, t) == t - d.dayStart < DAY_MS /\ d.usedDaily >= d.dailyLimit

\* the hash is marked exhausted by the scan
RedisScanMarks(d, t) ==
  d.status = "active" /\ ~RedisWindowFull(d, t) /\ RedisDayFull(d, t)

\* the hash is pushed on the candidates array
RedisCandidate(d, t) ==
  d.status = "active" /\ ~RedisWindowFull(d, t) /\ ~RedisDayFull(d, t)

\* candidates.sort((a, b) => a.usedInWindow - b.usedInWindow)[0]: the
\* first hash of least stored usedInWindow
RedisChosen(st, t) ==
  LET c == SelectSeq(st, LAMBDA d : RedisCandidate(d, t))
      i == FirstIdx({k \in 1..Len(c) :
                       \A j \in 1..Len(c) :
                         /\ c[k].usedInWindow <= c[j].usedInWindow
                         /\ (j < k => c[j].usedInWindow > c[k].usedInWindow)})
  IN c[i].subscriptionId

\* a write to the hash of id marks every connection that watches it
Touch(rd, id) ==
  [c \in Conns |->
     IF id \in rd[c].watch THEN [rd[c] EXCEPT !.dirty = TRUE] ELSE rd[c]]

RECURSIVE TouchAll(_, _)
TouchAll(rd, ids) ==
  IF ids = {} THEN rd
  ELSE LET id == CHOOSE x \in ids : TRUE
       IN TouchAll(Touch(rd, id), ids \ {id})

\* the commands queued on the MULTI, applied to the stored hash d by a
\* caller that read current at time t
Multi(d, current, t) ==
  LET d1 == IF t - current.windowStart >= WINDOW_MS
            THEN [d EXCEPT !.usedInWindow = 0, !.windowStart = t] ELSE d
      d2 == IF t - current.dayStart >= DAY_MS
            THEN [d1 EXCEPT !.usedDaily = 0, !.dayStart = t, !.status = "active"]
            ELSE d1
  IN [d2 EXCEPT !.usedInWindow = @ + 1, !.usedDaily = @ + 1, !.lastUsed = t]

\* sMembers and the hGetAll loop that builds the candidates, with its
\* hSet of status exhausted, taken at one instant
RedisScan(p) ==
  /\ rs[p].pc = "idle"
  /\ calls < MaxReserves
  /\ calls' = calls + 1
  /\ LET marked == {k \in 1..Len(store) : RedisScanMarks(store[k], now)}
     IN /\ store' = [k \in 1..Len(store) |->
                       IF k \in marked THEN [store[k] EXCEPT !.status = "exhausted"]
                       ELSE store[k]]
        /\ redis' = TouchAll(redis, {store[k].subscriptionId : k \in marked})
  /\ rs' = [rs EXCEPT ![p] =
       IF \E k \in 1..Len(store) : RedisCandidate(store[k], now)
       THEN [rs[p] EXCEPT !.pc = "watch", !.chosen = RedisChosen(store, now),
                          !.attempt = 0, !.result = NoResult]
       ELSE RedisIdle(rs[p].conn, NoneResult)]
  /\ UNCHANGED <<now, ticks, ws, dsw, reg, sync, admin, issued, env, wq, http, watcher>>

\* await redis.client.watch(keyName)
RedisWatch(p) ==
  /\ rs[p].pc = "watch"
  /\ redis' = [redis EXCEPT ![rs[p].conn].watch = @ \cup {rs[p].chosen}]
  /\ rs' = [rs EXCEPT ![p].pc = "read"]
  /\ UNCHANGED <<store, now, ticks, calls, ws, dsw, reg, sync, admin, issued, env, wq, http, watcher>>

\* current = await hGetAll(keyName), now = Date.now() and the checks
RedisRead(p) ==
  /\ rs[p].pc = "read"
  /\ rs' = [rs EXCEPT ![p] =
       IF ~HasId(store, rs[p].chosen) THEN [rs[p] EXCEPT !.pc = "unwatch"]
       ELSE LET current == DocOf(store, rs[p].chosen)
            IN IF current.status # "active" \/ RedisWindowFull(current, now)
               THEN [rs[p] EXCEPT !.pc = "unwatch"]
               ELSE IF RedisDayFull(current, now)
               THEN [rs[p] EXCEPT !.pc = "exhaust"]
               ELSE [rs[p] EXCEPT !.pc = "exec", !.now = now,
                                  !.current = <<current>>]]
  /\ UNCHANGED <<store, now, ticks, calls, ws, dsw, reg, sync, admin, issued, env, wq, http, redis, watcher>>

\* await hSet(keyName, 'status', 'exhausted'), before the unwatch or
\* after the transaction
RedisMark(p) ==
  /\ rs[p].pc \in {"exhaust", "mark"}
  /\ store' = updateOne(store, rs[p].chosen, [status |-> "exhausted"])
  /\ redis' = Touch(redis, rs[p].chosen)
  /\ rs' = [rs EXCEPT ![p] =
       IF rs[p].pc = "exhaust" THEN [rs[p] EXCEPT !.pc = "unwatch"]
       ELSE RedisIdle(rs[p].conn,
                      [status |-> "ok", subscriptionId |-> rs[p].chosen,
                       plan |-> rs[p].current[1].plan])]
  /\ UNCHANGED <<now, ticks, calls, ws, dsw, reg, sync, admin, issued, env, wq, http, watcher>>

\* await redis.client.unwatch(); return null
RedisUnwatch(p) ==
  /\ rs[p].pc = "unwatch"
  /\ redis' = [redis EXCEPT ![rs[p].conn] = NoWatch]
  /\ rs' = [rs EXCEPT ![p] = RedisIdle(rs[p].conn, NoneResult)]
  /\ UNCHANGED <<store, now, ticks, calls, ws, dsw, reg, sync, admin, issued, env, wq, http, watcher>>

\* results = await multi.exec(): EXEC aborts when a key the connection
\* watches was written since, and leaves the connection watching nothing
RedisExec(p) ==
  /\ rs[p].pc = "exec"
  /\ LET c == rs[p].conn
         current == rs[p].current[1]
         t == rs[p].now
     IN IF redis[c].dirty
        THEN /\ redis' = [redis EXCEPT ![c] = NoWatch]
             /\ rs' = [rs EXCEPT ![p] =
                  IF rs[p].attempt + 1 < redisMaxAttempts
                  THEN [rs[p] EXCEPT !.pc = "watch", !.attempt = @ + 1]
                  ELSE RedisIdle(c, NoneResult)]
             /\ UNCHANGED <<store, issued>>
        ELSE /\ store' = [k \in 1..Len(store) |->
                            IF store[k].subscriptionId = rs[p].chosen
                            THEN Multi(store[k], current, t) ELSE store[k]]
             /\ redis' = [Touch(redis, rs[p].chosen) EXCEPT ![c] = NoWatch]
             /\ issued' = Append(issued, Issue(current, now, 1))
             /\ rs' = [rs EXCEPT ![p] =
                  IF t - current.dayStart < DAY_MS
                     /\ current.usedDaily + 1 >= current.dailyLimit
                  THEN [rs[p] EXCEPT !.pc = "mark"]
                  ELSE RedisIdle(c, [status |-> "ok", subscriptionId |-> rs[p].chosen,
                                     plan |-> current.plan])]
  /\ UNCHANGED <<now, ticks, calls, ws, dsw, reg, sync, admin, env, wq, http, watcher>>

\* two callers in one process share the client's connection; callers in
\* two processes have a connection each
InitRedis ==
  /\ now = InitNow
  /\ \E s \in {"oneleft", "dayleft"} :
       /\ store = <<ScenDoc("k1", "pro", s)>>
       /\ issued = ScenIssued("k1", "pro", s)
  /\ \E c \in Conns : rs = [p \in Procs |-> RedisIdle(IF p = "r1" THEN "c1" ELSE c, NoResult)]
  /\ ticks = 0 /\ calls = 0 /\ ws = IdleSweep /\ dsw = IdleSweep
  /\ reg = IdleReg /\ sync = IdleReg /\ admin = 0 /\ wq = IdleQueue
  /\ http = [p \in Procs |-> NoResponse]
  /\ redis = [c \in Conns |-> NoWatch]
  /\ watcher = IdleWatcher
  /\ env = NoEnv

RedisCaller(p) ==
  \/ RedisScan(p) \/ RedisWatch(p) \/ RedisRead(p)
  \/ RedisMark(p) \/ RedisUnwatch(p) \/ RedisExec(p)

NextRedis == Tick \/ \E p \in Procs : RedisCaller(p)

SpecRedis == InitRedis /\ [][NextRedis]_vars

(* ------------------------------------------------------------------ *)
(* The .env watcher (src/envWatcher.js)                                *)
(* ------------------------------------------------------------------ *)
DEBOUNCE_MS == 250
MaxEvents == 3

\* the performSync calls: the one of the start and one per debounced run
SyncIdx == 1..(MaxEvents + 1)

\* contents of the key JSON: not configured, a path that cannot be read,
\* text that JSON.parse rejects, or an array of entries
JsonSources ==
  {NoJson,
   [kind |-> "unreadable", entries |-> <<>>],
   [kind |-> "malformed", entries |-> <<>>],
   [kind |-> "array", entries |-> <<[id |-> "", plan |-> "pro"]>>],
   [kind |-> "array", entries |-> <<[id |-> "k1", plan |-> "pro"]>>],
   [kind |-> "array", entries |-> <<[id |-> "k1", plan |-> "Pro"],
                                    [id |-> "k2", plan |-> ""]>>],
   [kind |-> "array", entries |-> <<[id |-> "k1", plan |-> "pro"],
                                    [id |-> "k1", plan |-> "ultimate"]>>]}

CsvSources ==
  {<<>>, <<[id |-> "k2", plan |-> "ultimate"]>>, <<[id |-> "k1", plan |-> ""]>>}

ListSources == {<<>>, <<"k1", "k2">>}

EnvFiles ==
  {[readable |-> r, default |-> d, json |-> j, csv |-> c, list |-> l] :
     r \in BOOLEAN, d \in {"", "pro"}, j \in JsonSources, c \in CsvSources,
     l \in ListSources}

\* the entries with an id, each with normalizePlan(entry.plan || defaultPlan)
PlannedKeys(entries, default) ==
  LET withId == SelectSeq(entries, LAMBDA e : e.id # "")
  IN [i \in 1..Len(withId) |->
        [id |-> withId[i].id,
         plan |-> normalizePlan(Or(withId[i].plan, defaultPlanOf(default)))]]

\* parseKeysFromEnv(parseEnvFile(envPath)).keys
parseKeysFromEnv(file) ==
  IF ~file.readable THEN <<>>
  ELSE IF PlannedKeys(file.json.entries, file.default) # <<>>
  THEN PlannedKeys(file.json.entries, file.default)
  ELSE IF PlannedKeys(file.csv, file.default) # <<>>
  THEN PlannedKeys(file.csv, file.default)
  ELSE [i \in 1..Len(file.list) |->
          [id |-> file.list[i], plan |-> normalizePlan(defaultPlanOf(file.default))]]

\* desiredMap: one entry per id in the order of its first appearance, with
\* the plan of its last appearance
DesiredMap(keys) ==
  LET first == SelectSeq([i \in 1..Len(keys) |-> i],
                         LAMBDA i : \A j \in 1..(i - 1) : keys[j].id # keys[i].id)
      last(id) == CHOOSE i \in 1..Len(keys) :
                    /\ keys[i].id = id
                    /\ \A j \in (i + 1)..Len(keys) : keys[j].id # id
  IN [n \in 1..Len(first) |->
        [id |-> keys[first[n]].id, plan |-> keys[last(keys[first[n]].id)].plan]]

DesiredIds(desired) == {desired[i].id : i \in 1..Len(desired)}

\* a performSync call that has parsed the file and awaits getAllKeysStatus
NewSync(file) ==
  [pc |-> "list", desired |-> DesiredMap(parseKeysFromEnv(file)),
   existing |-> <<>>, todo |-> <<>>, dels |-> <<>>, reg |-> IdleReg]

\* currentPlan && currentPlan === plan, from the existing map
InDesiredState(existing, e) ==
  \E k \in 1..Len(existing) :
    existing[k].subscriptionId = e.id /\ existing[k].plan = e.plan

\* a register loop that calls registerKey for every desired key
PendingRegistersAll(existing, todo) == todo

\* the desired entries from the first that needs registerKey
RECURSIVE PendingRegisters(_, _)
PendingRegisters(existing, todo) ==
  IF todo = <<>> THEN <<>>
  ELSE IF InDesiredState(existing, Head(todo))
  THEN PendingRegisters(existing, Tail(todo))
  ELSE todo

\* a delete loop that stops after the first stale key
StaleIdsFirst(existing, desired) ==
  LET stale == SelectSeq(existing,
                 LAMBDA d : d.subscriptionId \notin DesiredIds(desired))
  IN IF stale = <<>> THEN <<>> ELSE <<stale[1].subscriptionId>>

\* the ids of the existing map that the desired map does not have
StaleIds(existing, desired) ==
  LET stale == SelectSeq(existing,
                 LAMBDA d : d.subscriptionId \notin DesiredIds(desired))
  IN [i \in 1..Len(stale) |-> stale[i].subscriptionId]

\* the call after the register loop has no entry left
AfterRegisters(ps) ==
  LET dels == StaleIds(ps.existing, ps.desired)
  IN [ps EXCEPT !.pc = IF dels = <<>> THEN "done" ELSE "delete",
                !.todo = <<>>, !.dels = dels]

\* a debounced call that leaves a pending timer alone
ArmTimerOnce(timer, t) == IF timer # 0 THEN timer ELSE t + DEBOUNCE_MS

\* clearTimeout(timer); timer = setTimeout(..., delay)
ArmTimer(timer, t) == t + DEBOUNCE_MS

\* runSync() of startWatching: performSync reads and parses the file
StartWatching ==
  /\ watcher.ps = <<>>
  /\ watcher' = [watcher EXCEPT !.ps = <<NewSync(watcher.file)>>]
  /\ UNCHANGED <<store, now, ticks, rs, calls, ws, dsw, reg, sync, admin, issued, env, wq, http, redis>>

\* fs.watch reports change or rename: debouncedSync()
DebouncedSync ==
  /\ Len(watcher.events) < MaxEvents
  /\ watcher' = [watcher EXCEPT !.timer = ArmTimer(watcher.timer, now),
                                !.events = Append(watcher.events, now)]
  /\ UNCHANGED <<store, now, ticks, rs, calls, ws, dsw, reg, sync, admin, issued, env, wq, http, redis>>

\* the timeout of the debounce fires: timer = null; runSync()
DebounceFire ==
  /\ watcher.timer # 0
  /\ now >= watcher.timer
  /\ watcher' = [watcher EXCEPT !.timer = 0,
                                !.runs = Append(watcher.runs, now),
                                !.ps = Append(watcher.ps, NewSync(watcher.file))]
  /\ UNCHANGED <<store, now, ticks, rs, calls, ws, dsw, reg, sync, admin, issued, env, wq, http, redis>>

\* time passes, to the instant the pending timer is due at the latest
WatcherWait ==
  /\ ticks < 2 * MaxEvents
  /\ \E d \in {100, DEBOUNCE_MS, watcher.timer - now} :
       /\ d > 0
       /\ watcher.timer # 0 => now + d <= watcher.timer
       /\ now' = now + d
  /\ ticks' = ticks + 1
  /\ UNCHANGED <<store, rs, calls, ws, dsw, reg, sync, admin, issued, env, wq, http, redis, watcher>>

\* existing = await keyManager.getAllKeysStatus()
PerformSyncList(i) ==
  /\ i <= Len(watcher.ps)
  /\ watcher.ps[i].pc = "list"
  /\ watcher' = [watcher EXCEPT !.ps[i] =
       [@ EXCEPT !.pc = "register", !.existing = getAllKeysStatus(store),
                 !.todo = watcher.ps[i].desired]]
  /\ UNCHANGED <<store, now, ticks, rs, calls, ws, dsw, reg, sync, admin, issued, env, wq, http, redis>>

\* the register loop up to the findOne of its next registerKey call, or
\* to the delete loop
PerformSyncRegister(i) ==
  /\ i <= Len(watcher.ps)
  /\ watcher.ps[i].pc = "register"
  /\ LET ps == watcher.ps[i]
         todo == PendingRegisters(ps.existing, ps.todo)
     IN watcher' = [watcher EXCEPT !.ps[i] =
          IF todo = <<>> THEN AfterRegisters(ps)
          ELSE [ps EXCEPT !.pc = "write", !.todo = Tail(todo),
                          !.reg = [pc |-> "write", id |-> Head(todo).id,
                                   plan |-> ToLower(Head(todo).plan), now |-> now,
                                   existing |-> HasId(store, Head(todo).id)]]]
  /\ UNCHANGED <<store, now, ticks, rs, calls, ws, dsw, reg, sync, admin, issued, env, wq, http, redis>>

\* registerKey: insertOne or updateOne; a rejection is caught and logged
PerformSyncWrite(i) ==
  /\ i <= Len(watcher.ps)
  /\ watcher.ps[i].pc = "write"
  /\ LET r == watcher.ps[i].reg
     IN store' = IF ~r.existing
                 THEN insertOne(store, NewDoc(r.id, r.plan, r.now))
                 ELSE updateOne(store, r.id, RegUpdate(r.plan))
  /\ watcher' = [watcher EXCEPT !.ps[i] = [@ EXCEPT !.pc = "register", !.reg = IdleReg]]
  /\ UNCHANGED <<now, ticks, rs, calls, ws, dsw, reg, sync, admin, issued, env, wq, http, redis>>

\* await keyManager.deleteKey(subscriptionId) of the delete loop
PerformSyncDelete(i) ==
  /\ i <= Len(watcher.ps)
  /\ watcher.ps[i].pc = "delete"
  /\ store' = deleteOne(store, Head(watcher.ps[i].dels))
  /\ watcher' = [watcher EXCEPT !.ps[i] =
       [@ EXCEPT !.dels = Tail(@),
                 !.pc = IF Tail(watcher.ps[i].dels) = <<>> THEN "done" ELSE "delete"]]
  /\ UNCHANGED <<now, ticks, rs, calls, ws, dsw, reg, sync, admin, issued, env, wq, http, redis>>

\* bursts of change events on the watched file
InitDebounce ==
  /\ now = InitNow
  /\ store = <<>> /\ issued = <<>>
  /\ InitProcs

NextDebounce == DebouncedSync \/ DebounceFire \/ WatcherWait

SpecDebounce == InitDebounce /\ [][NextDebounce]_vars

\* one performSync, started when the watcher starts, on any .env file
\* and with keys already stored and used
StoredKeys ==
  {<<>>,
   <<ScenDoc("k1", "pro", "once")>>,
   <<ScenDoc("k2", "pro", "oneleft")>>,
   <<ScenDoc("k1", "ultimate", "once"), ScenDoc("k2", "pro", "fresh")>>}

InitSync ==
  /\ now = InitNow
  /\ store \in StoredKeys
  /\ issued = <<>>
  /\ ticks = 0 /\ calls = 0 /\ ws = IdleSweep /\ dsw = IdleSweep
  /\ rs = [p \in Procs |-> IdleReserver(NoResult)]
  /\ reg = IdleReg /\ sync = IdleReg /\ admin = 0 /\ wq = IdleQueue
  /\ http = [p \in Procs |-> NoResponse]
  /\ redis = [c \in Conns |-> NoWatch]
  /\ env = NoEnv
  /\ \E file \in EnvFiles : watcher = [IdleWatcher EXCEPT !.file = file]

NextSync ==
  \/ StartWatching
  \/ \E i \in SyncIdx : PerformSyncList(i)
  \/ \E i \in SyncIdx : PerformSyncRegister(i)
  \/ \E i \in SyncIdx : PerformSyncWrite(i)
  \/ \E i \in SyncIdx : PerformSyncDelete(i)

SpecSync == InitSync /\ [][NextSync]_vars

(* ------------------------------------------------------------------ *)
(* One caller and no other writer, on keys in every stored condition   *)
(* ------------------------------------------------------------------ *)
\* an exhausted key that the token service set back to active
RevivedDoc(id) == [ScenDoc(id, "pro", "exhausted") EXCEPT !.status = "active"]

\* a key the token service banned
BannedDoc(id) == [ScenDoc(id, "ultimate", "fresh") EXCEPT !.status = "banned"]

InitQuiet ==
  /\ now = InitNow
  /\ \E d1 \in {ScenDoc("k1", "pro", s) : s \in {"oneleft", "full", "dayleft", "spent"}}
                 \cup {RevivedDoc("k1")},
        d2 \in {ScenDoc("k2", "ultimate", "fresh"), ScenDoc("k2", "ultimate", "full"),
                BannedDoc("k2")} :
       store = <<d1, d2>>
  /\ issued = <<>>
  /\ InitProcs

NextQuiet ==
  Tick \/ Find("r1") \/ Filter("r1") \/ SideWrite("r1") \/ Walk("r1")

SpecQuiet == InitQuiet /\ [][NextQuiet]_vars

(* ------------------------------------------------------------------ *)
(* One caller on an ultimate and a pro key that were both just reserved *)
(* ------------------------------------------------------------------ *)
InitAlternate ==
  /\ now = InitNow
  /\ \E p1 \in {"pro", "ultimate"}, p2 \in {"pro", "ultimate"} :
       /\ p1 # p2
       /\ store = <<ScenDoc("k1", p1, "once"), ScenDoc("k2", p2, "once")>>
       /\ issued = ScenIssued("k1", p1, "once") \o ScenIssued("k2", p2, "once")
  /\ InitProcs

SpecAlternate == InitAlternate /\ [][NextPair]_vars

(* ------------------------------------------------------------------ *)
(* The wait queue in front of one pro key                              *)
(* ------------------------------------------------------------------ *)
\* KEY_QUEUE_MAX_WAIT_MS left at its default 0: the worker has no deadline;
\* one job in service at a time
WorkerEnvs ==
  {[NoEnv EXCEPT !.KEY_QUEUE_CONCURRENCY = Num(1), !.KEY_QUEUE_BACKOFF_MS = b] :
     b \in {Unset, Num(500)}}

\* the requester gives up after KEY_QUEUE_REQUEST_TIMEOUT_MS
RequestEnvs ==
  {[NoEnv EXCEPT !.KEY_QUEUE_CONCURRENCY = Num(1),
                 !.KEY_QUEUE_REQUEST_TIMEOUT_MS = Num(500)]}

\* KEY_QUEUE_MAX_WAIT_MS set: every job has a deadline
DeadlineEnvs ==
  {[NoEnv EXCEPT !.KEY_QUEUE_MAX_WAIT_MS = Num(1000), !.KEY_QUEUE_CONCURRENCY = Num(1)]}

\* one pro key in one of the given scenarios, and an idle queue
InitQueue(scens) ==
  /\ now = InitNow
  /\ \E scen \in scens :
       /\ store = <<ScenDoc("k1", "pro", scen)>>
       /\ issued = ScenIssued("k1", "pro", scen)
  /\ InitIdle

InitWorker == InitQueue({"fresh", "oneleft", "full", "exhausted"}) /\ env \in WorkerEnvs

\* the steps of the calls the worker has in flight
WorkerCalls == \E p \in Procs : Filter(p) \/ Walk(p) \/ FindRetry(p)

\* the token service bans the key while the queue is at work
Banned == \E id \in Ids : TokenBanned(id)

Worker(j) == WorkerCheck(j) \/ WorkerReturn(j) \/ WorkerWake(j)

Requester(j) == Respond(j) \/ RequestTimeout(j)

NextWorker ==
  \/ Tick
  \/ Enqueue
  \/ Dequeue
  \/ \E j \in 1..MaxJobs : Worker(j)
  \/ WorkerCalls
  \/ Banned

SpecWorker == InitWorker /\ [][NextWorker]_vars

(* ------------------------------------------------------------------ *)
(* The queued route: requesters that time out, and the worker          *)
(* ------------------------------------------------------------------ *)
InitRequest == InitQueue({"oneleft"}) /\ env \in RequestEnvs

\* the worker is the only writer of the collection and serves one job at a
\* time: no findOneAndUpdate of its calls misses, no call sleeps and retries
NextRequest ==
  \/ Tick
  \/ Enqueue
  \/ Dequeue
  \/ \E j \in 1..MaxJobs : Worker(j) \/ Requester(j)
  \/ \E p \in Procs : Filter(p) \/ Walk(p)

SpecRequest == InitRequest /\ [][NextRequest]_vars

(* ------------------------------------------------------------------ *)
(* The wait queue with a worker deadline, time passing while a job is  *)
(* in service                                                          *)
(* ------------------------------------------------------------------ *)
InitDeadline == InitQueue({"oneleft", "exhausted"}) /\ env \in DeadlineEnvs

\* the clock reaches the next instant at which something can change
TickService ==
  /\ ActiveJobs # {}
  /\ \E t \in Thresholds :
       /\ t > now
       /\ \A u \in Thresholds : u > now => t <= u
       /\ now' = t
  /\ UNCHANGED <<store, ticks, rs, calls, ws, dsw, reg, sync, admin, issued, env, wq, http, redis, watcher>>

NextDeadline ==
  \/ TickService
  \/ Enqueue
  \/ Dequeue
  \/ \E j \in 1..MaxJobs : Worker(j)
  \/ WorkerCalls
  \/ Banned

\* the event loop runs every ready continuation and the clock advances; with
\* one job in service at a time at most one worker step and one call step is
\* ready at any moment
SpecDeadline ==
  /\ InitDeadline
  /\ [][NextDeadline]_vars
  /\ WF_vars(TickService)
  /\ WF_vars(\E j \in 1..MaxJobs : Worker(j))
  /\ WF_vars(WorkerCalls)

(* ------------------------------------------------------------------ *)
(* The queued route with both deadlines and a failing database         *)
(* ------------------------------------------------------------------ *)
QueuedEnvs ==
  {[NoEnv EXCEPT !.KEY_QUEUE_CONCURRENCY = Num(1),
                 !.KEY_QUEUE_BACKOFF_MS = Num(500),
                 !.KEY_QUEUE_MAX_WAIT_MS = Num(500),
                 !.KEY_QUEUE_REQUEST_TIMEOUT_MS = Num(500)]}

InitQueued == InitQueue({"oneleft", "full"}) /\ env \in QueuedEnvs

\* the requests of a burst: all arrive before the clock moves
EnqueueBurst == now = InitNow /\ Enqueue

NextQueued ==
  \/ Tick
  \/ EnqueueBurst
  \/ Dequeue
  \/ \E j \in 1..MaxJobs : Worker(j) \/ WorkerThrow(j) \/ Requester(j)
  \/ \E p \in Procs : Filter(p) \/ Walk(p)

SpecQueued == InitQueued /\ [][NextQueued]_vars

(* ------------------------------------------------------------------ *)
(* GET /key/available                                                  *)
(* ------------------------------------------------------------------ *)
\* the values MAILTESTER_PRO_INTERVAL_MS and MAILTESTER_ULTIMATE_INTERVAL_MS take
RawIntervals == {"undefined", "abc", "", "0", "-5", "0.5", "99.9", "200", "1000"}

RouteEnvs ==
  {[NoEnv EXCEPT !.MAILTESTER_PRO_INTERVAL_MS = a,
                 !.MAILTESTER_ULTIMATE_INTERVAL_MS = b] :
     a \in RawIntervals, b \in RawIntervals}

InitRoute ==
  /\ now = InitNow
  /\ \/ store = <<>> /\ issued = <<>>
     \/ \E scen \in {"fresh", "full"} :
          /\ store = <<ScenDoc("k1", "pro", scen)>>
          /\ issued = ScenIssued("k1", "pro", scen)
  /\ InitIdle
  /\ env \in RouteEnvs

\* key = await keyManager.getAvailableKey() of a request not yet answered
RouteFind(p) == rs[p].result = NoResult /\ Find(p)

NextRoute ==
  \/ Tick
  \/ RouteFind("r1")
  \/ Filter("r1")
  \/ Walk("r1")
  \/ RouteRespond("r1")

SpecRoute == InitRoute /\ [][NextRoute]_vars

(* ------------------------------------------------------------------ *)
(* Reservation history                                                 *)
(* ------------------------------------------------------------------ *)
\* number of recorded reservations of id at times in (lo, hi]
RECURSIVE IssuedIn(_, _, _, _)
IssuedIn(h, id, lo, hi) ==
  IF h = <<>> THEN 0
  ELSE (IF Head(h).id = id /\ lo < Head(h).at /\ Head(h).at <= hi THEN Head(h).n ELSE 0)
       + IssuedIn(Tail(h), id, lo, hi)

\* the reservations committed by the modelled run, not the ones Init records
Committed == {i \in 1..Len(issued) : issued[i].run}

\* C1 (P1): for every key and every 30-second interval ending at one of its
\* reservations, the number of its reservations in the interval is at most the
\* windowLimit in force at that reservation.
C1_NoOverIssueWindow ==
  \A i \in Committed :
    IssuedIn(issued, issued[i].id, issued[i].at - WINDOW_MS, issued[i].at)
      <= issued[i].rateLimit30s

\* C2 (P2): for every key and every 24-hour interval ending at one of its
\* reservations, the number of its reservations in the interval is at most the
\* dailyLimit in force at that reservation.
C2_NoOverIssueDay ==
  \A i \in Committed :
    IssuedIn(issued, issued[i].id, issued[i].at - DAY_MS, issued[i].at)
      <= issued[i].dailyLimit

\* C3 (P3): two consecutive reservations of the same key are at least that
\* key's avgRequestIntervalMs apart.
C3_Spacing ==
  \A i \in Committed : \A j \in Committed :
    j < i /\ issued[j].id = issued[i].id
      => issued[i].at - issued[j].at >= issued[i].avgRequestIntervalMs

\* C4 (P4): callers contending for the last slot of an unexpired window: while
\* the window is the initial one at most one reservation is committed, at most
\* one caller holds a reservation and usedInWindow never exceeds the limit; once
\* every call has returned inside that window exactly one was committed.
C4_OneWinner ==
  (Len(store) = 1 /\ store[1].windowStart = RegAt) =>
    /\ Cardinality(Committed) <= 1
    /\ Cardinality({p \in Procs : rs[p].result.status = "ok"}) <= 1
    /\ store[1].usedInWindow <= store[1].rateLimit30s
    /\ (calls >= 1 /\ (\A p \in Procs : rs[p].pc = "idle") /\ now - RegAt < WINDOW_MS)
         => /\ Cardinality(Committed) = 1
            /\ store[1].usedInWindow = store[1].rateLimit30s

\* one caller won the slot and the other, whose compare-and-set was refused,
\* is waiting for its second round
C4_Witness ==
  /\ rs["r1"].result.status = "ok"
  /\ rs["r2"].pc = "sleep"
  /\ store[1].windowStart = RegAt
  /\ store[1].usedInWindow = store[1].rateLimit30s

InBounds(d) ==
  /\ 0 <= d.usedInWindow /\ d.usedInWindow <= d.rateLimit30s
  /\ 0 <= d.usedDaily /\ d.usedDaily <= d.dailyLimit

\* C5: after every reserve() commit every stored key has
\* 0 <= usedInWindow <= rateLimit30s and 0 <= usedDaily <= dailyLimit.
C5_CounterBounds ==
  [][issued' # issued => \A i \in 1..Len(store') : InBounds(store'[i])]_vars

\* C6: a step of reserve() never changes the counters, the anchors or lastUsed
\* of a document whose stored status is not active, and a reservation is only
\* returned for a document that was active when the compare-and-set ran.
C6_NeverCommitsInactive ==
  [][\A p \in Procs : rs'[p] # rs[p] =>
       /\ Len(store') = Len(store)
       /\ \A i \in 1..Len(store) : store[i].status # "active" =>
            /\ store'[i].usedInWindow = store[i].usedInWindow
            /\ store'[i].windowStart = store[i].windowStart
            /\ store'[i].usedDaily = store[i].usedDaily
            /\ store'[i].dayStart = store[i].dayStart
            /\ store'[i].lastUsed = store[i].lastUsed
       /\ (rs[p].pc = "walk" /\ rs'[p].result.status = "ok") =>
            /\ issued' # issued
            /\ DocOf(store, rs'[p].result.subscriptionId).status = "active"]_vars

\* the only call made so far lost its compare-and-set to a ban that came after
\* its snapshot
C6_Witness ==
  /\ calls = 1
  /\ \E p \in Procs : rs[p].pc = "sleep" /\ rs[p].attemptIndex = 1
  /\ store[1].status = "banned"

\* C7 (P5): once a document is banned, no step other than a registry operation
\* changes its status.
C7_BannedTerminal ==
  [][\A i \in 1..Len(store) :
       (store[i].status = "banned" /\ reg' = reg /\ Len(store') = Len(store))
         => store'[i].status = "banned"]_vars

\* C8 (P6), as claimed: when a day sweep that read a key as exhausted with an
\* expired day completes, the key is active with usedDaily = 0 and is a
\* candidate of a reserve() sampled then.
C8_ReactivatedCandidate ==
  [][(dsw.pc = "write" /\ dsw'.pc = "idle" /\ Head(dsw.todo).status = "exhausted"
        /\ HasId(store', Head(dsw.todo).id))
       => LET d == DocOf(store', Head(dsw.todo).id)
          IN d.status = "active" /\ d.usedDaily = 0 /\ IsCandidate(d, now)]_vars

\* C8 (P6), amended: the write of a day sweep that read a key as exhausted with
\* an expired day leaves the key active with usedDaily = 0 and dayStart at the
\* sweep's sampled time; the key is then a candidate exactly when its 30 s
\* window has expired or still has room.
C8_Reactivated ==
  [][(dsw.pc = "write" /\ dsw' # dsw /\ Head(dsw.todo).status = "exhausted"
        /\ HasId(store, Head(dsw.todo).id))
       => LET d == DocOf(store', Head(dsw.todo).id)
          IN /\ d.status = "active"
             /\ d.usedDaily = 0
             /\ d.dayStart = dsw.now
             /\ IsCandidate(d, now)
                  <=> (windowExpired(d, now) \/ d.usedInWindow < d.rateLimit30s)]_vars

\* a key that had used its whole day was reactivated by the sweep while its
\* last window is still full: active, usedDaily = 0, and not a candidate
C8_Witness ==
  /\ Len(store) = 1
  /\ IssuedIn(issued, "k1", 0, InitNow) = store[1].dailyLimit
  /\ store[1].status = "active"
  /\ store[1].usedDaily = 0
  /\ store[1].dayStart > InitNow
  /\ dsw.pc = "idle"
  /\ ~IsCandidate(store[1], now)

C10_InsertPolicy ==
  [][(reg.pc = "write" /\ reg'.pc = "idle" /\ ~reg.existing) =>
       LET d == store'[Len(store')]
       IN /\ d.subscriptionId = reg.id
          /\ d.usedInWindow = 0 /\ d.usedDaily = 0
          /\ d.status = "active" /\ d.lastUsed = 0
          /\ d.windowStart = reg.now /\ d.dayStart = reg.now
          /\ d.plan = "pro" =>
               /\ d.rateLimit30s = 35 /\ d.dailyLimit = 100000
               /\ d.avgRequestIntervalMs = 860
          /\ d.plan = "ultimate" =>
               /\ d.rateLimit30s = 170 /\ d.dailyLimit = 500000
               /\ d.avgRequestIntervalMs = 170]_vars

\* the id of the reservation a step commits (callers check issued' # issued)
CommittedId == issued'[Len(issued')].id

\* C11, as claimed: the commit of a call that runs alone is on a candidate of
\* minimal effective usedInWindow, and after a start with two fresh keys the
\* second reservation is of another key than the first.
C11_LeastUsedDistinct ==
  [][issued' # issued =>
       /\ \A i \in 1..Len(store) : IsCandidate(store[i], rs["r1"].now) =>
            windowCount(DocOf(store, CommittedId), rs["r1"].now)
              <= windowCount(store[i], rs["r1"].now)
       /\ (Len(issued) = 1 /\ issued[1].run) => CommittedId # issued[1].id]_vars

\* C11, amended: the commit of a call that runs alone is on a candidate of
\* minimal effective usedInWindow, and after a start with two fresh keys the
\* second reservation is of another key than the first when it is sampled
\* inside the window the first one was counted in.
C11_LeastUsedFirst ==
  [][issued' # issued =>
       /\ \A i \in 1..Len(store) : IsCandidate(store[i], rs["r1"].now) =>
            windowCount(DocOf(store, CommittedId), rs["r1"].now)
              <= windowCount(store[i], rs["r1"].now)
       /\ (Len(issued) = 1 /\ issued[1].run
             /\ ~windowExpired(DocOf(store, issued[1].id), rs["r1"].now))
            => CommittedId # issued[1].id]_vars

\* two fresh keys of different plans, two calls, one reservation on each
C11_Witness ==
  /\ Len(issued) = 2
  /\ issued[1].run /\ issued[2].run
  /\ issued[1].id = "k1" /\ issued[2].id = "k2"
  /\ store[1].plan # store[2].plan
  /\ store[1].usedInWindow = 1 /\ store[2].usedInWindow = 1

\* C12: a call that samples its time when an ultimate key's
\* avgRequestIntervalMs has elapsed since its last reservation and a pro key's
\* has not, commits on the ultimate key.
C12_PlanAlternation ==
  [][issued' # issued =>
       \A i \in 1..Len(store) : \A j \in 1..Len(store) :
         (/\ store[i].plan = "ultimate" /\ store[j].plan = "pro"
          /\ store[i].lastUsed > 0 /\ store[j].lastUsed > 0
          /\ rs["r1"].now >= store[i].lastUsed + store[i].avgRequestIntervalMs
          /\ rs["r1"].now < store[j].lastUsed + store[j].avgRequestIntervalMs)
           => CommittedId = store[i].subscriptionId]_vars

\* C13: while a key's window (day) is unexpired its usedInWindow (usedDaily)
\* is the number of its reservations since windowStart (dayStart); the count
\* may or may not include reservations made at the anchor instant itself.
C13_CounterAccounting ==
  \A i \in 1..Len(store) :
    LET d == store[i]
    IN /\ ~windowExpired(d, now) =>
            /\ IssuedIn(issued, d.subscriptionId, d.windowStart, now) <= d.usedInWindow
            /\ d.usedInWindow <= IssuedIn(issued, d.subscriptionId, d.windowStart - 1, now)
       /\ ~dayExpired(d, now) =>
            /\ IssuedIn(issued, d.subscriptionId, d.dayStart, now) <= d.usedDaily
            /\ d.usedDaily <= IssuedIn(issued, d.subscriptionId, d.dayStart - 1, now)

\* C14: a call that samples its time when the window of an active key with
\* daily room has expired lists the key as a candidate with windowCount 0,
\* whatever its stored usedInWindow, and the commit on a candidate whose window
\* had expired stores usedInWindow = 1 and windowStart = the commit time.
C14_WindowRollover ==
  [][\A p \in Procs :
       /\ rs[p].pc = "filter" /\ rs'[p] # rs[p] =>
            \A i \in 1..Len(rs[p].docs) :
              LET d == rs[p].docs[i]
              IN (/\ d.status = "active"
                  /\ windowExpired(d, now)
                  /\ dayExpired(d, now) \/ d.usedDaily < d.dailyLimit)
                   => \E k \in 1..Len(rs'[p].cands) :
                        /\ rs'[p].cands[k].doc = d
                        /\ rs'[p].cands[k].windowCount = 0
       /\ (rs[p].pc = "walk" /\ issued' # issued /\ rs'[p] # rs[p]
             /\ windowExpired(DocOf(store, CommittedId), rs[p].now))
            => /\ DocOf(store', CommittedId).usedInWindow = 1
               /\ DocOf(store', CommittedId).windowStart = now]_vars

\* a key whose window was full at the start was reserved after the window
\* expired: the commit opened a new window with usedInWindow = 1
C14_Witness ==
  /\ Len(store) = 1
  /\ \E k \in 1..Len(issued) :
       ~issued[k].run /\ issued[k].at = InitNow /\ issued[k].n = store[1].rateLimit30s
  /\ Cardinality(Committed) = 1
  /\ store[1].usedInWindow = 1
  /\ store[1].windowStart = now
  /\ now >= RegAt + WINDOW_MS

\* C15: the document a reserve() commit stores has status exhausted exactly
\* when its stored usedDaily has reached its stored dailyLimit, and status
\* active otherwise.
C15_ExhaustedIffDailyLimit ==
  [][issued' # issued =>
       LET d == DocOf(store', CommittedId)
       IN /\ d.status \in {"active", "exhausted"}
          /\ d.status = "exhausted" <=> d.usedDaily >= d.dailyLimit]_vars

\* the job whose processor has been started and has not returned or thrown
InService(j) == j \in ActiveJobs

C17_NoDeadlineRetries ==
  [][\A j \in 1..MaxJobs :
       (maxWaitMs = 0 /\ InService(j) /\ wq'.jobs[j] # wq.jobs[j]) =>
         LET job == wq.jobs[j]
             after == wq'.jobs[j]
         IN /\ job.deadline = Infinity
            /\ after.st \in {"active", "completed"}
            /\ after.err = ""
            /\ after.st = "completed" =>
                 /\ job.pc = "call"
                 /\ rs[job.proc].result.status = "ok"
                 /\ after.key = rs[job.proc].result
            /\ (job.pc = "call" /\ rs[job.proc].result.status = "none") =>
                 /\ after.pc = "sleep"
                 /\ after.wake = now + backoffMs
            /\ job.pc = "sleep" => now >= job.wake /\ after.pc = "check"
            /\ job.pc = "check" => after.pc = "call"]_vars

\* a job found no key, slept backoffMs, called again and has been returned a
\* reservation
C17_Witness ==
  /\ maxWaitMs = 0
  /\ \E j \in ActiveJobs :
       /\ wq.jobs[j].pc = "call"
       /\ wq.jobs[j].wake > 0
       /\ now >= wq.jobs[j].wake
       /\ rs[wq.jobs[j].proc].pc = "idle"
       /\ rs[wq.jobs[j].proc].result.status = "ok"

\* the requester of job j has been answered 429 wait
AnsweredWait(j) == j \in 1..Len(wq.jobs) /\ wq.jobs[j].resp = WaitResponse(429)

\* C18: the step that answers a requester 429 wait after its timeout leaves
\* the job, the calls in flight, the collection and the reservation history
\* as they are; a job in service whose requester has been answered goes on
\* through the worker loop and leaves service only by completing with the
\* reservation its call returned; no step of the queue or of a requester
\* writes the collection, so the reservation stays counted.
C18_TimeoutKeepsWorker ==
  [][/\ \A j \in 1..MaxJobs :
          /\ (j \in 1..Len(wq.jobs) /\ wq.jobs[j].resp = NoResponse
                /\ ~Finished(wq.jobs[j]) /\ AnsweredWait(j)')
               => /\ wq'.jobs[j] = [wq.jobs[j] EXCEPT !.resp = WaitResponse(429)]
                  /\ now >= wq.jobs[j].timeoutAt
                  /\ UNCHANGED <<rs, store, issued>>
          /\ (InService(j) /\ AnsweredWait(j) /\ wq'.jobs[j] # wq.jobs[j])
               => LET job == wq.jobs[j]
                      after == wq'.jobs[j]
                  IN /\ after.resp = job.resp
                     /\ after.st \in {"active", "completed"}
                     /\ after.st = "completed" <=>
                          (job.pc = "call" /\ rs[job.proc].result.status = "ok")
                     /\ after.st = "completed" => after.key = rs[job.proc].result
                     /\ job.pc = "check" => after.pc = "call"
                     /\ job.pc = "sleep" => after.pc = "check"
     /\ wq' # wq => UNCHANGED <<store, issued>>
     /\ store' # store =>
          /\ Len(issued') = Len(issued) + 1
          /\ DocOf(store', CommittedId).usedDaily >= 1]_vars

\* a job whose requester timed out was later given a reservation: the job
\* completed with the key, the requester has its 429 wait, and the reservation
\* committed after the timeout is the key's lastUsed
C18_Witness ==
  \E j \in 1..Len(wq.jobs) :
    /\ AnsweredWait(j)
    /\ wq.jobs[j].st = "completed"
    /\ wq.jobs[j].key.status = "ok"
    /\ \E k \in Committed :
         /\ issued[k].at > wq.jobs[j].timeoutAt
         /\ store[1].lastUsed = issued[k].at
         /\ store[1].usedInWindow >= 1

\* C19: jobs leave the wait list in the order they entered it (no job is
\* still waiting while a job added after it has been started), and the number
\* of jobs in service never exceeds concurrency.
C19_FifoBoundedService ==
  /\ Cardinality(ActiveJobs) <= concurrency
  /\ \A i, j \in 1..Len(wq.jobs) :
       (i < j /\ wq.jobs[j].st # "waiting") => wq.jobs[i].st # "waiting"

\* concurrency jobs are in service and a later job waits although a
\* processor is free; the job in service is the one added first
C19_Witness ==
  /\ Len(wq.jobs) >= 2
  /\ wq.jobs[1].st = "active"
  /\ wq.jobs[2].st = "waiting"
  /\ Cardinality(ActiveJobs) = concurrency
  /\ FreeSlots # {}

\* the interval of a plan in tenths of a millisecond when an override that
\* is a positive number is used as it is
OverrideTenths(rawValue, fallback) ==
  IF ToNumber(rawValue).finite /\ ToNumber(rawValue).tenths > 0
  THEN ToNumber(rawValue).tenths
  ELSE 10 * fallback

\* the response GET /key/available gives to the result of getAvailableKey:
\* 200 ok with the key for a reservation, 200 wait with the given waitMs in
\* tenths of a millisecond for none
RouteAnswers(p, waitTenths) ==
  /\ http'[p].code = 200
  /\ http'[p].status = "ok" <=> rs[p].result.status = "ok"
  /\ rs[p].result.status = "ok" => http'[p].key = rs[p].result
  /\ rs[p].result.status = "none" =>
       /\ http'[p].status = "wait"
       /\ 10 * http'[p].waitMs = waitTenths

C21_QueuedAnswers ==
  [][\A j \in 1..MaxJobs :
       LET wait429 == [code |-> 429, status |-> "wait",
                       waitMs |-> getDefaultWaitMs, key |-> NoResult]
       IN /\ RequestTimeout(j) => wq'.jobs[j].resp = wait429
          /\ Respond(j) =>
               LET job == wq.jobs[j]
                   resp == wq'.jobs[j].resp
               IN /\ (job.st = "failed" /\ job.err = "QUEUE_TIMEOUT") => resp = wait429
                  /\ job.st = "completed" =>
                       resp = [code |-> 200, status |-> "ok", waitMs |-> 0,
                               key |-> job.key]
                  /\ resp.code \in {200, 429, 500}
                  /\ resp.code = 500 =>
                       /\ job.st = "failed"
                       /\ job.err \in DriverMessages
          /\ (j \in 1..Len(wq.jobs) /\ wq'.jobs[j].resp # wq.jobs[j].resp)
               => RequestTimeout(j) \/ Respond(j)]_vars

\* one requester was answered 500 for a database error, another 429 for the
\* worker's QUEUE_TIMEOUT
C21_Witness ==
  /\ Len(wq.jobs) >= 2
  /\ wq.jobs[1].err = "connect ECONNREFUSED"
  /\ wq.jobs[1].resp.code = 500
  /\ wq.jobs[2].err = "QUEUE_TIMEOUT"
  /\ wq.jobs[2].resp.code = 429
  /\ wq.jobs[2].timeoutAt = 0

\* C22: deleteKey leaves no document of the id and touches no other
\* document, and on an absent id changes nothing; with no registration
\* running, an id that is not stored stays not stored whatever calls and
\* sweeps are in flight, and a reservation is committed only on a stored
\* document, so none is committed on the id after its deletion.
C22_DeleteStopsService ==
  [][/\ \A id \in Ids :
          /\ (DeleteKey(id) \/ DeleteAbsent(id)) =>
               /\ ~HasId(store', id)
               /\ store' = SelectSeq(store, LAMBDA d : d.subscriptionId # id)
               /\ ~HasId(store, id) => store' = store
               /\ issued' = issued
          /\ ~HasId(store, id) => ~HasId(store', id)
     /\ issued' # issued =>
          /\ HasId(store, CommittedId)
          /\ HasId(store', CommittedId)]_vars

\* the key was deleted after a call had taken its snapshot: the call's
\* findOneAndUpdate matched nothing and the call is in its retry sleep, the
\* collection is empty
C22_Witness ==
  /\ store = <<>>
  /\ admin >= 1
  /\ rs["r1"].pc = "sleep"
  /\ rs["r1"].attemptIndex >= 1

\* the status listing holds an entry of id with the plan and its limits
Listed(status, id, plan) ==
  \E i \in 1..Len(status) :
    /\ status[i].subscriptionId = id
    /\ status[i].plan = plan
    /\ status[i].rateLimit30s = getRateLimits(plan).rateLimit30s
    /\ status[i].dailyLimit = getRateLimits(plan).dailyLimit
    /\ status[i].avgRequestIntervalMs = getRateLimits(plan).avgRequestIntervalMs

C24_ReservationDescriptor ==
  \A p \in Procs :
    rs[p].result.status = "ok" =>
      /\ {"avgRequestIntervalMs", "lastUsed", "nextRequestAllowedAt"}
            \subseteq DOMAIN rs[p].result
      /\ rs[p].result.nextRequestAllowedAt
            = rs[p].result.lastUsed + rs[p].result.avgRequestIntervalMs

\* C25: every stored key has plan pro or ultimate, whichever caller of
\* registerKey registered it.
C25_PlanDomain ==
  \A i \in 1..Len(store) : store[i].plan \in {"pro", "ultimate"}

C27_SweepsIdempotent ==
  /\ resetWindowsForAll(resetWindowsForAll(store, now), now)
       = resetWindowsForAll(store, now)
  /\ resetDailyForAll(resetDailyForAll(store, now), now)
       = resetDailyForAll(store, now)

\* both sweeps have reset the first key at this instant, more than two
\* windows after its last use
C27_Witness ==
  /\ Len(store) >= 1
  /\ store[1].windowStart = now
  /\ store[1].dayStart = now
  /\ store[1].usedInWindow = 0
  /\ store[1].usedDaily = 0
  /\ now - store[1].lastUsed >= 2 * WINDOW_MS
  /\ store[1].lastUsed > 0

\* C28: a write of the side write, of the day sweep or of the window sweep
\* changes a document only if the fields the writer read and decided on
\* still hold what it observed: status, usedDaily, dayStart and dailyLimit
\* for the side write, status and an elapsed day for the day sweep, an
\* elapsed window for the window sweep.
C28_WritesAreCas ==
  [][/\ \A p \in Procs :
          (SideWrite(p) /\ store' # store) =>
            LET id == Head(rs[p].side)
                seen == DocOf(rs[p].docs, id)
                cur == DocOf(store, id)
            IN /\ cur.status = seen.status
               /\ cur.usedDaily = seen.usedDaily
               /\ cur.dayStart = seen.dayStart
               /\ cur.dailyLimit = seen.dailyLimit
     /\ (DaySweepWrite /\ store' # store) =>
          LET e == Head(dsw.todo)
              cur == DocOf(store, e.id)
          IN /\ cur.status = e.status
             /\ dsw.now - cur.dayStart >= DAY_MS
     /\ (WindowSweepWrite /\ store' # store) =>
          LET e == Head(ws.todo)
              cur == DocOf(store, e.id)
          IN ws.now - cur.windowStart >= WINDOW_MS]_vars

\* C29: no stored key has status exhausted while its usedDaily is below its
\* dailyLimit.
C29_ExhaustedMeansSpent ==
  \A i \in 1..Len(store) :
    store[i].status = "exhausted" => store[i].usedDaily >= store[i].dailyLimit

\* the columns of a /limits entry that are columns of a /status entry
LimitsColumns ==
  {"subscriptionId", "plan", "rateLimit30s", "dailyLimit",
   "avgRequestIntervalMs", "lastUsed"}

SameAsSnapshot(st, doc) ==
  /\ HasId(st, doc.subscriptionId)
  /\ DocOf(st, doc.subscriptionId).usedInWindow = doc.usedInWindow
  /\ DocOf(st, doc.subscriptionId).windowStart = doc.windowStart
  /\ DocOf(st, doc.subscriptionId).usedDaily = doc.usedDaily
  /\ DocOf(st, doc.subscriptionId).dayStart = doc.dayStart
  /\ DocOf(st, doc.subscriptionId).status = doc.status

\* C31: a findOneAndUpdate of getAvailableKey changes the collection if and
\* only if the stored document still holds the snapshot's usedInWindow,
\* windowStart, usedDaily, dayStart and status; it then writes the six new
\* fields together on that document and nothing else, after which the
\* snapshot no longer matches, so no second caller holding it commits; a
\* refused one leaves the collection as it was and commits nothing.
C31_CasAtomic ==
  [][\A p \in Procs :
       Walk(p) =>
         LET c == Head(rs[p].cands)
             id == c.doc.subscriptionId
         IN /\ (store' # store) <=> SameAsSnapshot(store, c.doc)
            /\ (issued' # issued) <=> (store' # store)
            /\ store' # store =>
                 /\ Len(store') = Len(store)
                 /\ \A i \in 1..Len(store) :
                      IF i = IdxOf(store, id)
                      THEN store'[i] = applySet(store[i],
                             [usedInWindow |-> newWindowCount(c),
                              windowStart |-> IF c.windowExpired THEN now
                                              ELSE c.doc.windowStart,
                              usedDaily |-> newDayCount(c),
                              dayStart |-> IF c.dayExpired THEN now
                                           ELSE c.doc.dayStart,
                              lastUsed |-> now,
                              status |-> IF willExhaust(c) THEN "exhausted"
                                         ELSE "active"])
                      ELSE store'[i] = store[i]
                 /\ ~SameAsSnapshot(store', c.doc)]_vars

\* two callers held the same snapshot of the key: one committed on it, the
\* other was refused and is waiting for its second round
C31_Witness ==
  /\ rs["r2"].result.status = "ok"
  /\ rs["r1"].pc = "sleep"
  /\ rs["r1"].attemptIndex = 1
  /\ Len(store) = 1
  /\ store[1].lastUsed > InitNow

\* C32: a call of getAvailableKey takes at most maxAttempts = 3 snapshot
\* rounds; a round with no candidate returns none at once; a refused
\* findOneAndUpdate moves on to the next candidate of the round, so each
\* candidate is tried at most once per round, and after the last candidate
\* the call sleeps and takes another round, or returns none when the round
\* was the third; a commit returns the reservation; and every call returns.
C32_ReserveTerminates ==
  /\ [][\A p \in Procs :
          /\ rs'[p].attemptIndex \in 0..(maxAttempts - 1)
          /\ Len(rs'[p].cands) <= Len(rs'[p].docs)
          /\ (Find(p) /\ rs[p].pc = "sleep") =>
               rs'[p].attemptIndex = rs[p].attemptIndex
          /\ (Filter(p) /\ Candidates(rs[p].docs, now) = <<>>
                        /\ SideWrites(rs[p].docs, now) = <<>>) =>
               rs'[p] = IdleReserver(NoneResult)
          /\ (Walk(p) /\ store' # store) =>
               /\ rs'[p].pc = "idle"
               /\ rs'[p].result.status = "ok"
          /\ (Walk(p) /\ store' = store) =>
               IF Len(rs[p].cands) > 1
               THEN rs'[p] = [rs[p] EXCEPT !.cands = Tail(rs[p].cands)]
               ELSE IF rs[p].attemptIndex < maxAttempts - 1
               THEN /\ rs'[p].pc = "sleep"
                    /\ rs'[p].attemptIndex = rs[p].attemptIndex + 1
               ELSE rs'[p] = IdleReserver(NoneResult)]_vars
  /\ (\E p \in Procs : rs[p].pc # "idle") ~> (\A p \in Procs : rs[p].pc = "idle")

\* a call has returned none after three rounds, the second of them started a
\* sleep after the first, although the key is active with room in its window
C32_Witness ==
  /\ rs["r1"] = IdleReserver(NoneResult)
  /\ now >= InitNow + DAY_MS + 2 * RetryDelayMs
  /\ store[1].status = "active"
  /\ store[1].usedInWindow < store[1].rateLimit30s
  /\ store[1].usedDaily < store[1].dailyLimit

\* place of a subscriptionId in the lexicographic order of the ids
IdRank(id) == IF id = "k1" THEN 1 ELSE 2

\* C33 as claimed: of two candidates with equal windowCount the one tried
\* first has the smaller lastUsed or, lastUsed being equal, the smaller
\* subscriptionId.
C33_TieBreakByLastUsed ==
  \A p \in Procs :
    rs[p].pc = "walk" =>
      \A i \in 1..Len(rs[p].cands) : \A j \in 1..Len(rs[p].cands) :
        (i < j /\ rs[p].cands[i].windowCount = rs[p].cands[j].windowCount) =>
          \/ rs[p].cands[i].doc.lastUsed < rs[p].cands[j].doc.lastUsed
          \/ /\ rs[p].cands[i].doc.lastUsed = rs[p].cands[j].doc.lastUsed
             /\ IdRank(rs[p].cands[i].doc.subscriptionId)
                  < IdRank(rs[p].cands[j].doc.subscriptionId)

\* C33 amended: the candidates are tried by ascending windowCount, and of
\* two candidates with equal windowCount the one that comes first in the
\* snapshot returned by the store is tried first.
C33_TieBreakByDocumentOrder ==
  \A p \in Procs :
    rs[p].pc = "walk" =>
      \A i \in 1..Len(rs[p].cands) : \A j \in 1..Len(rs[p].cands) :
        i < j =>
          /\ rs[p].cands[i].windowCount <= rs[p].cands[j].windowCount
          /\ rs[p].cands[i].windowCount = rs[p].cands[j].windowCount =>
               IdxOf(rs[p].docs, rs[p].cands[i].doc.subscriptionId)
                 < IdxOf(rs[p].docs, rs[p].cands[j].doc.subscriptionId)

\* both windows have elapsed: k2, stored first and used last, is tried
\* before k1, never used
C33_Witness ==
  /\ rs["r1"].pc = "walk"
  /\ Len(rs["r1"].cands) = 2
  /\ rs["r1"].cands[1].windowCount = rs["r1"].cands[2].windowCount
  /\ rs["r1"].cands[1].doc.subscriptionId = "k2"
  /\ rs["r1"].cands[2].doc.subscriptionId = "k1"
  /\ rs["r1"].cands[1].doc.lastUsed > rs["r1"].cands[2].doc.lastUsed

(* ------------------------------------------------------------------ *)
(* C34: what the sweeps change for getAvailableKey                     *)
(* ------------------------------------------------------------------ *)
\* the collection after both sweeps ran at time t
Swept(st, t) == resetDailyForAll(resetWindowsForAll(st, t), t)

\* the keys a call sampling time t walks, in order, with the $set it
\* would commit for each at that time
Offers(st, t) ==
  LET c == Candidates(st, t)
  IN [i \in 1..Len(c) |->
        [subscriptionId |-> c[i].doc.subscriptionId, set |-> CasUpdate(c[i], t)]]

OfferedIds(st, t) ==
  {Offers(st, t)[i].subscriptionId : i \in 1..Len(Offers(st, t))}

C35_RedisNoOverIssue ==
  \A k \in 1..Len(store) :
    now - store[k].windowStart < WINDOW_MS
      => store[k].usedInWindow <= store[k].rateLimit30s

(* ------------------------------------------------------------------ *)
(* C36: the debounce of the watcher                                    *)
(* ------------------------------------------------------------------ *)
\* event j ends its burst: no later event is less than 250 ms after it
LastOfBurst(j) ==
  \A k \in (j + 1)..Len(watcher.events) :
    watcher.events[k] - watcher.events[j] >= DEBOUNCE_MS

\* no later event up to and including the instant 250 ms after event j
QuietAfter(j) ==
  \A k \in (j + 1)..Len(watcher.events) :
    watcher.events[k] - watcher.events[j] > DEBOUNCE_MS

\* the instant 250 ms after event j is reached and the timer that event j
\* set is no longer pending
TimerSettled(j) ==
  /\ now >= watcher.events[j] + DEBOUNCE_MS
  /\ watcher.timer # watcher.events[j] + DEBOUNCE_MS

RunsAt(t) == Cardinality({i \in 1..Len(watcher.runs) : watcher.runs[i] = t})

\* C36 (as stated): every burst of change events less than 250 ms apart
\* triggers exactly one sync, 250 ms after the last event of the burst,
\* and no sync starts at any other time.
C36_OneSyncPerBurst ==
  /\ \A j \in 1..Len(watcher.events) :
       (LastOfBurst(j) /\ TimerSettled(j))
         => RunsAt(watcher.events[j] + DEBOUNCE_MS) = 1
  /\ \A i \in 1..Len(watcher.runs) :
       \E j \in 1..Len(watcher.events) :
         LastOfBurst(j) /\ watcher.runs[i] = watcher.events[j] + DEBOUNCE_MS

\* C36 (amended): a burst whose last event is followed by no event up to
\* and including the instant 250 ms later triggers exactly one sync, at
\* that instant; every debounced sync starts 250 ms after the last event
\* of a burst, and at most one starts there.
C36_OneSyncPerQuietBurst ==
  /\ \A j \in 1..Len(watcher.events) :
       (QuietAfter(j) /\ TimerSettled(j))
         => RunsAt(watcher.events[j] + DEBOUNCE_MS) = 1
  /\ \A i \in 1..Len(watcher.runs) :
       /\ RunsAt(watcher.runs[i]) = 1
       /\ \E j \in 1..Len(watcher.events) :
            LastOfBurst(j) /\ watcher.runs[i] = watcher.events[j] + DEBOUNCE_MS

\* a burst of two events 100 ms apart has had its one sync, 250 ms after
\* the second
C36_Witness ==
  /\ Len(watcher.events) >= 2
  /\ watcher.events[2] - watcher.events[1] = 100
  /\ watcher.runs = <<watcher.events[2] + DEBOUNCE_MS>>
  /\ watcher.timer = 0

(* ------------------------------------------------------------------ *)
(* C37, C40: performSync                                               *)
(* ------------------------------------------------------------------ *)
\* the desired map computed from the watched file
Desired == DesiredMap(parseKeysFromEnv(watcher.file))

StoredIds == {store[k].subscriptionId : k \in 1..Len(store)}

SourceUnreadable(file) ==
  ~file.readable \/ file.json.kind \in {"unreadable", "malformed"}

\* the file defines no key outside the key JSON
NoFallbackKeys(file) ==
  PlannedKeys(file.csv, file.default) = <<>> /\ file.list = <<>>

\* a completed sync has deleted exactly the keys it found stored whose id
\* is not in the desired map, and each delete it issues is of such a key
DeletesExactlyStale ==
  \A i \in 1..Len(watcher.ps) :
    LET ps == watcher.ps[i]
    IN /\ ps.pc = "delete" =>
            /\ Head(ps.dels) \notin DesiredIds(Desired)
            /\ \E k \in 1..Len(ps.existing) :
                 ps.existing[k].subscriptionId = Head(ps.dels)
       /\ ps.pc = "done" =>
            \A k \in 1..Len(ps.existing) :
              HasId(store, ps.existing[k].subscriptionId)
                <=> ps.existing[k].subscriptionId \in DesiredIds(Desired)

QuiescentCandidate(d, t) ==
  /\ d.status = "active"
  /\ dayCount(d, t) < d.dailyLimit
  /\ windowCount(d, t) < d.rateLimit30s

C39_AnchorsMonotone ==
  [][\A k \in 1..Len(store) :
       HasId(store', store[k].subscriptionId) =>
         /\ DocOf(store', store[k].subscriptionId).windowStart >= store[k].windowStart
         /\ DocOf(store', store[k].subscriptionId).dayStart >= store[k].dayStart]_vars

====
